---- MODULE Spec2Model ----
(***************************************************************************)
(* worktree-tui: the Bubbletea model (internal/ui), its Update function,   *)
(* the per-state key handlers, the asynchronous commands and the parts of  *)
(* the view that compute with the model's state.                           *)
(*                                                                         *)
(* Go strings that the program inspects or edits rune by rune are          *)
(* sequences of one-character strings; error texts and state names are     *)
(* opaque strings.  Go indices are zero-based: worktrees[cursor-1] of the  *)
(* source is worktrees[cursor] here, branchTypes[newTypeIdx] of the source *)
(* is branchTypes[newTypeIdx + 1] here.                                    *)
(***************************************************************************)
EXTENDS Integers, Sequences, FiniteSets, Bags, TLC

VARIABLES
    m,        \* the ui.Model value owned by the Bubbletea event loop
    pending,  \* bag of commands handed to the runtime and not yet completed
    env,      \* what the commands and handlers read and write outside the model
    quit,     \* TRUE once Update has returned tea.Quit
    call      \* one call of a text helper: its arguments and, once made, its result

vars == <<m, pending, env, quit, call>>

\* ── types.AppState ──────────────────────────────────────────────────────────

StateNoGit == "StateNoGit"
StateShellSetup == "StateShellSetup"
StateList == "StateList"
StateNewWorktree == "StateNewWorktree"
StateEditWorktree == "StateEditWorktree"
StateDeleteConfirm == "StateDeleteConfirm"
StateRightPaneFocused == "StateRightPaneFocused"
StateCommitDetail == "StateCommitDetail"

AppStates ==
    { StateNoGit, StateShellSetup, StateList, StateNewWorktree, StateEditWorktree,
      StateDeleteConfirm, StateRightPaneFocused, StateCommitDetail }

\* ── small helpers on sequences ──────────────────────────────────────────────

Max(a, b) == IF a >= b THEN a ELSE b

Min(a, b) == IF a <= b THEN a ELSE b

\* s[1..n]
Take(s, n) == SubSeq(s, 1, Min(n, Len(s)))

\* s[n+1..]
Drop(s, n) == SubSeq(s, n + 1, Len(s))

\* ── update.go: branchTypes ──────────────────────────────────────────────────

branchTypes ==
    << <<"f","e","a","t">>, <<"f","i","x">>, <<"c","h","o","r","e">>,
       <<"d","o","c","s">>, <<"r","e","f","a","c","t","o","r">>,
       <<"t","e","s","t">>, <<"s","t","y","l","e">>, <<"c","i">>,
       <<"p","e","r","f">>, <<"r","e","l","e","a","s","e">> >>

\* ── types.PRInfo behind the *PRInfo of the cache and of prFetchedMsg ─────────

NilPR == [nil |-> TRUE, State |-> "", Number |-> 0, URL |-> ""]

PR(state, number) == [nil |-> FALSE, State |-> state, Number |-> number, URL |-> "u"]

\* ── types.CommitDetail ──────────────────────────────────────────────────────

ZeroCommitDetail ==
    [ ShortHash |-> <<>>, Subject |-> <<>>, Body |-> <<>>, RelTime |-> "",
      Files |-> <<>>, Diff |-> <<>>, Loaded |-> FALSE ]

\* ── model.go: InitialModel ──────────────────────────────────────────────────

InitialModel ==
    [ state |-> StateNoGit,
      worktrees |-> <<>>,
      repoName |-> "", curBranch |-> "",
      cursor |-> 0,
      width |-> 0, height |-> 0,
      remoteURL |-> "", stashCount |-> 0, fetchedAgo |-> "", defaultBranch |-> "",
      ghAvailable |-> FALSE,
      prCache |-> <<>>,
      hasCommits |-> FALSE,
      newTypeIdx |-> 0,
      newTypeListOpen |-> FALSE,
      newDisplayName |-> <<>>,
      newBranch |-> <<>>,
      newDescription |-> <<>>,
      newActiveField |-> 0,
      newBranchEdited |-> FALSE,
      editName |-> <<>>,
      selectedCommitIndex |-> 0,
      commitDetailScroll |-> 0,
      activeCommit |-> ZeroCommitDetail,
      errMsg |-> "" ]

\* ── runes ───────────────────────────────────────────────────────────────────

LowerLetters ==
    << "a","b","c","d","e","f","g","h","i","j","k","l","m",
       "n","o","p","q","r","s","t","u","v","w","x","y","z" >>

UpperLetters ==
    << "A","B","C","D","E","F","G","H","I","J","K","L","M",
       "N","O","P","Q","R","S","T","U","V","W","X","Y","Z" >>

Digits == { "0","1","2","3","4","5","6","7","8","9" }

IsLower(r) == \E i \in 1..26 : LowerLetters[i] = r

\* unicode.IsSpace on the runes a terminal delivers
IsSpace(r) == r \in { " ", "\t", "\n", "\r" }

\* strings.ToLower, one rune
ToLowerRune(r) ==
    IF \E i \in 1..26 : UpperLetters[i] = r
    THEN LowerLetters[CHOOSE i \in 1..26 : UpperLetters[i] = r]
    ELSE r

\* ── update.go: helpers ──────────────────────────────────────────────────────

dropLast(s) == IF Len(s) = 0 THEN s ELSE SubSeq(s, 1, Len(s) - 1)

\* strings.TrimRight(s, "-/")
RECURSIVE TrimRightSep(_)
TrimRightSep(s) ==
    IF Len(s) > 0 /\ s[Len(s)] \in { "-", "/" }
    THEN TrimRightSep(SubSeq(s, 1, Len(s) - 1))
    ELSE s

\* the loop of slugify: b is the strings.Builder, prevSep the flag
RECURSIVE slugifyLoop(_, _, _, _)
slugifyLoop(s, i, b, prevSep) ==
    IF i > Len(s) THEN b
    ELSE LET r == ToLowerRune(s[i]) IN
         IF IsLower(r) \/ r \in Digits
         THEN slugifyLoop(s, i + 1, Append(b, r), FALSE)
         ELSE IF r = "/"
         THEN slugifyLoop(s, i + 1, Append(b, "/"), FALSE)
         ELSE IF IsSpace(r) \/ r = "_" \/ r = "-"
         THEN IF ~prevSep /\ Len(b) > 0
              THEN slugifyLoop(s, i + 1, Append(b, "-"), TRUE)
              ELSE slugifyLoop(s, i + 1, b, prevSep)
         ELSE slugifyLoop(s, i + 1, b, prevSep)

slugify(s) == TrimRightSep(slugifyLoop(s, 1, <<>>, FALSE))

\* strings.ReplaceAll(s, "/", "-")
ReplaceSlash(s) == [i \in 1..Len(s) |-> IF s[i] = "/" THEN "-" ELSE s[i]]

\* ── tea.KeyMsg ──────────────────────────────────────────────────────────────

KeyUp == [Type |-> "KeyUp", Runes |-> <<>>]
KeyDown == [Type |-> "KeyDown", Runes |-> <<>>]
KeyEnter == [Type |-> "KeyEnter", Runes |-> <<>>]
KeyEsc == [Type |-> "KeyEsc", Runes |-> <<>>]
KeyTab == [Type |-> "KeyTab", Runes |-> <<>>]
KeyShiftTab == [Type |-> "KeyShiftTab", Runes |-> <<>>]
KeyBackspace == [Type |-> "KeyBackspace", Runes |-> <<>>]
KeySpace == [Type |-> "KeySpace", Runes |-> <<" ">>]
KeyCtrlC == [Type |-> "KeyCtrlC", Runes |-> <<>>]
Rune(r) == [Type |-> "KeyRunes", Runes |-> <<r>>]

\* msg.String(): the name of a named key, the runes of a typed one
KeyString(k) ==
    CASE k.Type = "KeyUp" -> <<"u","p">>
      [] k.Type = "KeyDown" -> <<"d","o","w","n">>
      [] k.Type = "KeyEnter" -> <<"e","n","t","e","r">>
      [] k.Type = "KeyEsc" -> <<"e","s","c">>
      [] k.Type = "KeyTab" -> <<"t","a","b">>
      [] k.Type = "KeyShiftTab" -> <<"s","h","i","f","t","+","t","a","b">>
      [] k.Type = "KeyBackspace" -> <<"b","a","c","k","s","p","a","c","e">>
      [] k.Type = "KeyCtrlC" -> <<"c","t","r","l","+","c">>
      [] OTHER -> k.Runes

\* ── model.go: the commands (tea.Cmd values) ─────────────────────────────────

NoCmd == [op |-> "nil"]
QuitCmd == [op |-> "tea.Quit"]
checkGitRepo == [op |-> "checkGitRepo"]
loadWorktrees == [op |-> "loadWorktrees"]
initGitRepo == [op |-> "initGitRepo"]
loadCommitDetail(worktreePath, sha) ==
    [op |-> "loadCommitDetail", worktreePath |-> worktreePath, sha |-> sha]
fetchPR(branch) == [op |-> "fetchPR", branch |-> branch]
createWorktree(displayName, branch, path, description) ==
    [op |-> "createWorktree", displayName |-> displayName, branch |-> branch,
     path |-> path, description |-> description]
deleteWorktree(branch, path) == [op |-> "deleteWorktree", branch |-> branch, path |-> path]
renameWorktree(oldName, newName) ==
    [op |-> "renameWorktree", oldName |-> oldName, newName |-> newName]

\* what Update and the handlers return: the model, the command, the environment
Ret(mm, cmd, e) == [m |-> mm, cmd |-> cmd, env |-> e]

\* ── model.go: the messages ──────────────────────────────────────────────────

KeyMsg(k) == [type |-> "tea.KeyMsg", key |-> k]
WindowSizeMsg(w, h) == [type |-> "tea.WindowSizeMsg", Width |-> w, Height |-> h]
gitCheckMsg(isGit) == [type |-> "gitCheckMsg", isGit |-> isGit]
gitInitMsg(err) == [type |-> "gitInitMsg", err |-> err]
worktreeCreatedMsg(err) == [type |-> "worktreeCreatedMsg", err |-> err]
worktreeDeletedMsg(err) == [type |-> "worktreeDeletedMsg", err |-> err]
worktreeRenamedMsg(err) == [type |-> "worktreeRenamedMsg", err |-> err]
prFetchedMsg(branch, info) == [type |-> "prFetchedMsg", branch |-> branch, info |-> info]
commitDetailLoadedMsg(detail, err) ==
    [type |-> "commitDetailLoadedMsg", detail |-> detail, err |-> err]
\* worktreesLoadedMsg{err: err}: every other field has its zero value
worktreesLoadedErr(err) ==
    [ type |-> "worktreesLoadedMsg", worktrees |-> <<>>, repoName |-> "", curBranch |-> "",
      remoteURL |-> "", stashCount |-> 0, fetchedAgo |-> "", defaultBranch |-> "",
      ghAvailable |-> FALSE, hasCommits |-> FALSE, err |-> err ]

\* ── update.go: resetNewModal, openNewModal ──────────────────────────────────

resetNewModal(mm) ==
    [mm EXCEPT !.newTypeIdx = 0, !.newTypeListOpen = FALSE, !.newDisplayName = <<>>,
               !.newBranch = <<>>, !.newDescription = <<>>, !.newActiveField = 0,
               !.newBranchEdited = FALSE]

\* openNewModal without the reset
openNewModalKeep(mm) == [mm EXCEPT !.state = StateNewWorktree]

openNewModal(mm) == [resetNewModal(mm) EXCEPT !.state = StateNewWorktree]

\* ── update.go: maybeFetchPR ─────────────────────────────────────────────────

\* maybeFetchPR without the cache lookup
maybeFetchPRAlways(mm) ==
    IF ~mm.ghAvailable \/ mm.cursor = 0 \/ mm.cursor - 1 >= Len(mm.worktrees)
    THEN NoCmd
    ELSE LET wt == mm.worktrees[mm.cursor] IN
         IF wt.IsMain THEN NoCmd
         ELSE fetchPR(wt.Branch)

maybeFetchPR(mm) ==
    IF ~mm.ghAvailable \/ mm.cursor = 0 \/ mm.cursor - 1 >= Len(mm.worktrees)
    THEN NoCmd
    ELSE LET wt == mm.worktrees[mm.cursor] IN
         IF wt.IsMain THEN NoCmd
         ELSE IF wt.Branch \in DOMAIN mm.prCache THEN NoCmd
         ELSE fetchPR(wt.Branch)

\* ── update.go: recalcBranch, deleteChar, appendRunes ────────────────────────

\* recalcBranch without the newBranchEdited test
recalcBranchAlways(mm) ==
    LET slug == slugify(mm.newDisplayName) IN
    IF slug = <<>>
    THEN [mm EXCEPT !.newBranch = branchTypes[mm.newTypeIdx + 1]]
    ELSE [mm EXCEPT !.newBranch = branchTypes[mm.newTypeIdx + 1] \o <<"/">> \o slug]

recalcBranch(mm) ==
    IF mm.newBranchEdited THEN mm
    ELSE LET slug == slugify(mm.newDisplayName) IN
         IF slug = <<>>
         THEN [mm EXCEPT !.newBranch = branchTypes[mm.newTypeIdx + 1]]
         ELSE [mm EXCEPT !.newBranch = branchTypes[mm.newTypeIdx + 1] \o <<"/">> \o slug]

deleteChar(mm) ==
    CASE mm.newActiveField = 1 ->
            recalcBranch([mm EXCEPT !.newDisplayName = dropLast(mm.newDisplayName)])
      [] mm.newActiveField = 2 ->
            [mm EXCEPT !.newBranch = dropLast(mm.newBranch), !.newBranchEdited = TRUE]
      [] mm.newActiveField = 3 ->
            [mm EXCEPT !.newDescription = dropLast(mm.newDescription)]
      [] OTHER -> mm

\* the loop of appendRunes, case 2: spaces become hyphens
SpacesToHyphens(runes) == [i \in 1..Len(runes) |-> IF IsSpace(runes[i]) THEN "-" ELSE runes[i]]

appendRunes(mm, runes) ==
    CASE mm.newActiveField = 0 -> mm
      [] mm.newActiveField = 1 ->
            recalcBranch([mm EXCEPT !.newDisplayName = mm.newDisplayName \o runes])
      [] mm.newActiveField = 2 ->
            [mm EXCEPT !.newBranch = mm.newBranch \o SpacesToHyphens(runes),
                       !.newBranchEdited = TRUE]
      [] mm.newActiveField = 3 ->
            [mm EXCEPT !.newDescription = mm.newDescription \o runes]
      [] OTHER -> mm

\* ── update.go: the key handlers ─────────────────────────────────────────────

\* msg.String() == "..." for the keys the handlers name
IsKey(k, name) == KeyString(k) = name

handleNoGit(mm, k, e) ==
    IF IsKey(k, <<"i">>) THEN Ret(mm, initGitRepo, e)
    ELSE IF IsKey(k, <<"q">>) THEN Ret(mm, QuitCmd, e)
    ELSE Ret(mm, NoCmd, e)

\* handleShellSetup declining on every key but "y"
handleShellSetupAny(mm, k, e) ==
    IF IsKey(k, <<"y">>)
    THEN Ret([mm EXCEPT !.state = StateList], loadWorktrees,
             [e EXCEPT !.shellSetup = TRUE, !.integrated = TRUE])
    ELSE Ret([mm EXCEPT !.state = StateList], loadWorktrees, [e EXCEPT !.integrated = TRUE])

handleShellSetup(mm, k, e) ==
    IF IsKey(k, <<"y">>)
    THEN Ret([mm EXCEPT !.state = StateList], loadWorktrees,
             [e EXCEPT !.shellSetup = TRUE, !.integrated = TRUE])
    ELSE IF IsKey(k, <<"n">>) \/ IsKey(k, <<"e","s","c">>) \/ IsKey(k, <<"q">>)
    THEN Ret([mm EXCEPT !.state = StateList], loadWorktrees, [e EXCEPT !.integrated = TRUE])
    ELSE Ret(mm, NoCmd, e)

\* case "up", "k"
listUp(mm) == IF mm.cursor > 0 THEN [mm EXCEPT !.cursor = mm.cursor - 1] ELSE mm

\* listDown without the `m.cursor < total-1` test
listDownUnbounded(mm) == [mm EXCEPT !.cursor = mm.cursor + 1]

\* case "down", "j": total is len(m.worktrees) + 1
listDown(mm) ==
    IF mm.cursor < (Len(mm.worktrees) + 1) - 1 THEN [mm EXCEPT !.cursor = mm.cursor + 1] ELSE mm

\* case "enter"
listEnter(mm) ==
    IF mm.cursor = 0 THEN openNewModal(mm)
    ELSE IF mm.cursor - 1 < Len(mm.worktrees)
    THEN [mm EXCEPT !.selectedCommitIndex = 0, !.state = StateRightPaneFocused]
    ELSE mm

\* listDelete without the `!m.worktrees[m.cursor-1].IsMain` test
listDeleteAny(mm) == IF mm.cursor > 0 THEN [mm EXCEPT !.state = StateDeleteConfirm] ELSE mm

\* case "d"
listDelete(mm) ==
    IF mm.cursor > 0 /\ ~mm.worktrees[mm.cursor].IsMain
    THEN [mm EXCEPT !.state = StateDeleteConfirm]
    ELSE mm

\* case "e"
listEdit(mm) ==
    IF mm.cursor > 0
    THEN [mm EXCEPT !.editName = mm.worktrees[mm.cursor].Branch, !.state = StateEditWorktree]
    ELSE mm

handleList(mm, k, e) ==
    IF IsKey(k, <<"q">>) THEN Ret(mm, QuitCmd, e)
    ELSE IF IsKey(k, <<"u","p">>) \/ IsKey(k, <<"k">>)
    THEN Ret(listUp(mm), maybeFetchPR(listUp(mm)), e)
    ELSE IF IsKey(k, <<"d","o","w","n">>) \/ IsKey(k, <<"j">>)
    THEN Ret(listDown(mm), maybeFetchPR(listDown(mm)), e)
    ELSE IF IsKey(k, <<"e","n","t","e","r">>) THEN Ret(listEnter(mm), NoCmd, e)
    ELSE IF IsKey(k, <<"n">>) THEN Ret(openNewModal(mm), NoCmd, e)
    ELSE IF IsKey(k, <<"d">>) THEN Ret(listDelete(mm), NoCmd, e)
    ELSE IF IsKey(k, <<"e">>) THEN Ret(listEdit(mm), NoCmd, e)
    ELSE IF IsKey(k, <<"c">>) /\ mm.cursor > 0
    THEN Ret(mm, QuitCmd, [e EXCEPT !.cdPath = mm.worktrees[mm.cursor].Path])
    ELSE Ret(mm, NoCmd, e)

\* ── internal/git as the model sees it ───────────────────────────────────────

\* the repository root of the explored repository
Root == <<"/","r">>

\* git.GetRepoRoot: "" when `git rev-parse` fails
GetRepoRoot(e) == IF e.isGit THEN Root ELSE <<>>

\* filepath.Join(root, ".wt", safePath): safePath holds no "/" after ReplaceAll
wtPathFor(root, branch) == root \o <<"/",".","w","t","/">> \o ReplaceSlash(branch)

\* newEnter without the `m.newBranch != ""` test
newEnterNameOnly(mm, e) ==
    IF mm.newActiveField = 0
    THEN Ret([mm EXCEPT !.newTypeListOpen = TRUE], NoCmd, e)
    ELSE IF mm.newDisplayName # <<>>
    THEN Ret(mm, createWorktree(mm.newDisplayName, mm.newBranch,
                                wtPathFor(GetRepoRoot(e), mm.newBranch), mm.newDescription), e)
    ELSE Ret(mm, NoCmd, e)

\* case tea.KeyEnter of handleNewWorktree
newEnter(mm, e) ==
    IF mm.newActiveField = 0
    THEN Ret([mm EXCEPT !.newTypeListOpen = TRUE], NoCmd, e)
    ELSE IF mm.newDisplayName # <<>> /\ mm.newBranch # <<>>
    THEN Ret(mm, createWorktree(mm.newDisplayName, mm.newBranch,
                                wtPathFor(GetRepoRoot(e), mm.newBranch), mm.newDescription), e)
    ELSE Ret(mm, NoCmd, e)

\* case tea.KeyTab, tea.KeyDown
newNextField(mm) == [mm EXCEPT !.newActiveField = (mm.newActiveField + 1) % 4]

\* case tea.KeyUp
newPrevField(mm) == [mm EXCEPT !.newActiveField = (mm.newActiveField + 3) % 4]

handleTypeList(mm, k, e) ==
    IF IsKey(k, <<"u","p">>) \/ IsKey(k, <<"k">>)
    THEN Ret(IF mm.newTypeIdx > 0 THEN [mm EXCEPT !.newTypeIdx = mm.newTypeIdx - 1] ELSE mm,
             NoCmd, e)
    ELSE IF IsKey(k, <<"d","o","w","n">>) \/ IsKey(k, <<"j">>)
    THEN Ret(IF mm.newTypeIdx < Len(branchTypes) - 1
             THEN [mm EXCEPT !.newTypeIdx = mm.newTypeIdx + 1] ELSE mm,
             NoCmd, e)
    ELSE IF IsKey(k, <<"e","n","t","e","r">>)
    THEN Ret(recalcBranch([mm EXCEPT !.newTypeListOpen = FALSE]), NoCmd, e)
    ELSE IF IsKey(k, <<"e","s","c">>)
    THEN Ret([mm EXCEPT !.newTypeListOpen = FALSE], NoCmd, e)
    ELSE Ret(mm, NoCmd, e)

handleNewWorktree(mm, k, e) ==
    IF mm.newTypeListOpen THEN handleTypeList(mm, k, e)
    ELSE CASE k.Type = "KeyEsc" -> Ret(resetNewModal([mm EXCEPT !.state = StateList]), NoCmd, e)
           [] k.Type \in {"KeyTab", "KeyDown"} -> Ret(newNextField(mm), NoCmd, e)
           [] k.Type = "KeyUp" -> Ret(newPrevField(mm), NoCmd, e)
           [] k.Type = "KeyEnter" -> newEnter(mm, e)
           [] k.Type = "KeySpace" -> Ret(appendRunes(mm, <<" ">>), NoCmd, e)
           [] k.Type = "KeyBackspace" -> Ret(deleteChar(mm), NoCmd, e)
           [] k.Type = "KeyRunes" -> Ret(appendRunes(mm, k.Runes), NoCmd, e)
           [] OTHER -> Ret(mm, NoCmd, e)

\* the commits of the selected worktree, as handleRightPaneFocused reads them
selectedCommits(mm) ==
    IF mm.cursor > 0 /\ mm.cursor - 1 < Len(mm.worktrees)
    THEN mm.worktrees[mm.cursor].Commits
    ELSE <<>>

\* case "enter" of handleRightPaneFocused
rightEnter(mm, e) ==
    LET commits == selectedCommits(mm) IN
    IF Len(commits) > 0 /\ mm.selectedCommitIndex < Len(commits)
    THEN LET c == commits[mm.selectedCommitIndex + 1]
             wt == mm.worktrees[mm.cursor]
         IN  Ret([mm EXCEPT !.activeCommit =
                               [ZeroCommitDetail EXCEPT !.ShortHash = c.Hash,
                                                        !.Subject = c.Message,
                                                        !.RelTime = c.RelTime],
                            !.commitDetailScroll = 0,
                            !.state = StateCommitDetail],
                 loadCommitDetail(wt.Path, c.Hash), e)
    ELSE Ret(mm, NoCmd, e)

\* handleRightPaneFocused whose "down" does not stop at the last commit
handleRightPaneFocusedUnbounded(mm, k, e) ==
    IF IsKey(k, <<"q">>) THEN Ret(mm, QuitCmd, e)
    ELSE IF IsKey(k, <<"e","s","c">>) THEN Ret([mm EXCEPT !.state = StateList], NoCmd, e)
    ELSE IF IsKey(k, <<"u","p">>) \/ IsKey(k, <<"k">>)
    THEN Ret(IF mm.selectedCommitIndex > 0
             THEN [mm EXCEPT !.selectedCommitIndex = mm.selectedCommitIndex - 1] ELSE mm,
             NoCmd, e)
    ELSE IF IsKey(k, <<"d","o","w","n">>) \/ IsKey(k, <<"j">>)
    THEN Ret([mm EXCEPT !.selectedCommitIndex = mm.selectedCommitIndex + 1], NoCmd, e)
    ELSE IF IsKey(k, <<"e","n","t","e","r">>) THEN rightEnter(mm, e)
    ELSE Ret(mm, NoCmd, e)

handleRightPaneFocused(mm, k, e) ==
    LET commits == selectedCommits(mm) IN
    IF IsKey(k, <<"q">>) THEN Ret(mm, QuitCmd, e)
    ELSE IF IsKey(k, <<"e","s","c">>) THEN Ret([mm EXCEPT !.state = StateList], NoCmd, e)
    ELSE IF IsKey(k, <<"u","p">>) \/ IsKey(k, <<"k">>)
    THEN Ret(IF mm.selectedCommitIndex > 0
             THEN [mm EXCEPT !.selectedCommitIndex = mm.selectedCommitIndex - 1] ELSE mm,
             NoCmd, e)
    ELSE IF IsKey(k, <<"d","o","w","n">>) \/ IsKey(k, <<"j">>)
    THEN Ret(IF mm.selectedCommitIndex < Len(commits) - 1
             THEN [mm EXCEPT !.selectedCommitIndex = mm.selectedCommitIndex + 1] ELSE mm,
             NoCmd, e)
    ELSE IF IsKey(k, <<"e","n","t","e","r">>) THEN rightEnter(mm, e)
    ELSE Ret(mm, NoCmd, e)

\* case "up", "k" of handleCommitDetail
detailUp(mm) ==
    IF mm.commitDetailScroll > 0
    THEN [mm EXCEPT !.commitDetailScroll = mm.commitDetailScroll - 1]
    ELSE mm

\* case "down", "j" of handleCommitDetail
detailDown(mm) == [mm EXCEPT !.commitDetailScroll = mm.commitDetailScroll + 1]

handleCommitDetail(mm, k, e) ==
    IF IsKey(k, <<"e","s","c">>) THEN Ret([mm EXCEPT !.state = StateRightPaneFocused], NoCmd, e)
    ELSE IF IsKey(k, <<"u","p">>) \/ IsKey(k, <<"k">>) THEN Ret(detailUp(mm), NoCmd, e)
    ELSE IF IsKey(k, <<"d","o","w","n">>) \/ IsKey(k, <<"j">>) THEN Ret(detailDown(mm), NoCmd, e)
    ELSE Ret(mm, NoCmd, e)

\* editEnter without the `oldName != newName` test
editEnterAlways(mm, e) ==
    IF mm.cursor > 0 /\ mm.editName # <<>>
    THEN Ret(mm, renameWorktree(mm.worktrees[mm.cursor].Branch, mm.editName), e)
    ELSE Ret([mm EXCEPT !.state = StateList], NoCmd, e)

\* case tea.KeyEnter of handleEditWorktree
editEnter(mm, e) ==
    IF mm.cursor > 0 /\ mm.editName # <<>> /\ mm.worktrees[mm.cursor].Branch # mm.editName
    THEN Ret(mm, renameWorktree(mm.worktrees[mm.cursor].Branch, mm.editName), e)
    ELSE Ret([mm EXCEPT !.state = StateList], NoCmd, e)

\* handleEditWorktree whose enter does not test the field for emptiness
handleEditWorktreeBlank(mm, k, e) ==
    CASE k.Type = "KeyEsc" -> Ret([mm EXCEPT !.state = StateList, !.editName = <<>>], NoCmd, e)
      [] k.Type = "KeyEnter" ->
            IF mm.cursor > 0 /\ mm.worktrees[mm.cursor].Branch # mm.editName
            THEN Ret(mm, renameWorktree(mm.worktrees[mm.cursor].Branch, mm.editName), e)
            ELSE Ret([mm EXCEPT !.state = StateList], NoCmd, e)
      [] k.Type = "KeyBackspace" -> Ret([mm EXCEPT !.editName = dropLast(mm.editName)], NoCmd, e)
      [] k.Type = "KeySpace" -> Ret([mm EXCEPT !.editName = mm.editName \o <<" ">>], NoCmd, e)
      [] k.Type = "KeyRunes" -> Ret([mm EXCEPT !.editName = mm.editName \o k.Runes], NoCmd, e)
      [] OTHER -> Ret(mm, NoCmd, e)

handleEditWorktree(mm, k, e) ==
    CASE k.Type = "KeyEsc" -> Ret([mm EXCEPT !.state = StateList, !.editName = <<>>], NoCmd, e)
      [] k.Type = "KeyEnter" -> editEnter(mm, e)
      [] k.Type = "KeyBackspace" -> Ret([mm EXCEPT !.editName = dropLast(mm.editName)], NoCmd, e)
      [] k.Type = "KeySpace" -> Ret([mm EXCEPT !.editName = mm.editName \o <<" ">>], NoCmd, e)
      [] k.Type = "KeyRunes" -> Ret([mm EXCEPT !.editName = mm.editName \o k.Runes], NoCmd, e)
      [] OTHER -> Ret(mm, NoCmd, e)

\* handleDeleteConfirm that deletes the last worktree of the list, not the one at
\* the cursor
handleDeleteConfirmLast(mm, k, e) ==
    IF IsKey(k, <<"y">>)
    THEN IF mm.cursor > 0
         THEN Ret(mm, deleteWorktree(mm.worktrees[Len(mm.worktrees)].Branch,
                                     mm.worktrees[Len(mm.worktrees)].Path), e)
         ELSE Ret(mm, NoCmd, e)
    ELSE IF IsKey(k, <<"n">>) \/ IsKey(k, <<"e","s","c">>)
    THEN Ret([mm EXCEPT !.state = StateList], NoCmd, e)
    ELSE Ret(mm, NoCmd, e)

handleDeleteConfirm(mm, k, e) ==
    IF IsKey(k, <<"y">>)
    THEN IF mm.cursor > 0
         THEN Ret(mm, deleteWorktree(mm.worktrees[mm.cursor].Branch,
                                     mm.worktrees[mm.cursor].Path), e)
         ELSE Ret(mm, NoCmd, e)
    ELSE IF IsKey(k, <<"n">>) \/ IsKey(k, <<"e","s","c">>)
    THEN Ret([mm EXCEPT !.state = StateList], NoCmd, e)
    ELSE Ret(mm, NoCmd, e)

\* the banner check of handleKey: a set errMsg swallows the key
dismissError(mm, e) == Ret([mm EXCEPT !.errMsg = ""], NoCmd, e)

\* the switch of handleKey on m.state
dispatchKey(mm, k, e) ==
    CASE mm.state = StateNoGit -> handleNoGit(mm, k, e)
      [] mm.state = StateShellSetup -> handleShellSetup(mm, k, e)
      [] mm.state = StateList -> handleList(mm, k, e)
      [] mm.state = StateNewWorktree -> handleNewWorktree(mm, k, e)
      [] mm.state = StateEditWorktree -> handleEditWorktree(mm, k, e)
      [] mm.state = StateDeleteConfirm -> handleDeleteConfirm(mm, k, e)
      [] mm.state = StateRightPaneFocused -> handleRightPaneFocused(mm, k, e)
      [] mm.state = StateCommitDetail -> handleCommitDetail(mm, k, e)
      [] OTHER -> Ret(mm, NoCmd, e)

\* handleKey without the banner check
handleKeyNoBanner(mm, k, e) ==
    IF IsKey(k, <<"c","t","r","l","+","c">>) THEN Ret(mm, QuitCmd, e)
    ELSE dispatchKey(mm, k, e)

handleKey(mm, k, e) ==
    IF IsKey(k, <<"c","t","r","l","+","c">>) THEN Ret(mm, QuitCmd, e)
    ELSE IF mm.errMsg # "" THEN dismissError(mm, e)
    ELSE dispatchKey(mm, k, e)

\* ── update.go: Update ───────────────────────────────────────────────────────

updateWindowSize(mm, msg, e) ==
    Ret([mm EXCEPT !.width = msg.Width, !.height = msg.Height], NoCmd, e)

\* the gitCheckMsg case without the first-run prompt
updateGitCheckNoPrompt(mm, msg, e) ==
    IF ~msg.isGit THEN Ret([mm EXCEPT !.state = StateNoGit], NoCmd, e)
    ELSE Ret([mm EXCEPT !.state = StateList], loadWorktrees, e)

\* case gitCheckMsg; git.IsShellIntegrated() reads the marker file
updateGitCheck(mm, msg, e) ==
    IF ~msg.isGit THEN Ret([mm EXCEPT !.state = StateNoGit], NoCmd, e)
    ELSE IF e.integrated THEN Ret([mm EXCEPT !.state = StateList], loadWorktrees, e)
    ELSE Ret([mm EXCEPT !.state = StateShellSetup], NoCmd, e)

\* updateWorktreesLoaded that returns to List on an error too
updateWorktreesLoadedToList(mm, msg, e) ==
    IF msg.err # "" THEN Ret([mm EXCEPT !.errMsg = msg.err, !.state = StateList], NoCmd, e)
    ELSE LET m1 == [mm EXCEPT !.worktrees = msg.worktrees,
                              !.repoName = msg.repoName,
                              !.curBranch = msg.curBranch,
                              !.remoteURL = msg.remoteURL,
                              !.stashCount = msg.stashCount,
                              !.fetchedAgo = msg.fetchedAgo,
                              !.defaultBranch = msg.defaultBranch,
                              !.ghAvailable = msg.ghAvailable,
                              !.state = StateList]
             m2 == IF m1.cursor > Len(m1.worktrees)
                   THEN [m1 EXCEPT !.cursor = Len(m1.worktrees)]
                   ELSE m1
         IN  Ret(m2, maybeFetchPR(m2), e)

\* the worktreesLoadedMsg case without the clamp of the cursor
updateWorktreesLoadedUnclamped(mm, msg, e) ==
    IF msg.err # "" THEN Ret([mm EXCEPT !.errMsg = msg.err], NoCmd, e)
    ELSE LET m1 == [mm EXCEPT !.worktrees = msg.worktrees,
                              !.repoName = msg.repoName,
                              !.curBranch = msg.curBranch,
                              !.remoteURL = msg.remoteURL,
                              !.stashCount = msg.stashCount,
                              !.fetchedAgo = msg.fetchedAgo,
                              !.defaultBranch = msg.defaultBranch,
                              !.ghAvailable = msg.ghAvailable,
                              !.state = StateList]
         IN  Ret(m1, maybeFetchPR(m1), e)

\* case worktreesLoadedMsg
updateWorktreesLoaded(mm, msg, e) ==
    IF msg.err # "" THEN Ret([mm EXCEPT !.errMsg = msg.err], NoCmd, e)
    ELSE LET m1 == [mm EXCEPT !.worktrees = msg.worktrees,
                              !.repoName = msg.repoName,
                              !.curBranch = msg.curBranch,
                              !.remoteURL = msg.remoteURL,
                              !.stashCount = msg.stashCount,
                              !.fetchedAgo = msg.fetchedAgo,
                              !.defaultBranch = msg.defaultBranch,
                              !.ghAvailable = msg.ghAvailable,
                              !.state = StateList]
             m2 == IF m1.cursor > Len(m1.worktrees)
                   THEN [m1 EXCEPT !.cursor = Len(m1.worktrees)]
                   ELSE m1
         IN  Ret(m2, maybeFetchPR(m2), e)

\* updatePRFetched storing the result under the branch at the cursor
updatePRFetchedAtCursor(mm, msg, e) ==
    LET b == IF mm.cursor > 0 /\ mm.cursor <= Len(mm.worktrees)
             THEN mm.worktrees[mm.cursor].Branch ELSE msg.branch
    IN  Ret([mm EXCEPT !.prCache =
                [x \in DOMAIN mm.prCache \cup {b} |->
                    IF x = b THEN msg.info ELSE mm.prCache[x]]],
            NoCmd, e)

\* updatePRFetched that reports a failed lookup in the banner and caches nothing
updatePRFetchedOrError(mm, msg, e) ==
    IF msg.info.nil THEN Ret([mm EXCEPT !.errMsg = "gh pr view failed"], NoCmd, e)
    ELSE Ret([mm EXCEPT !.prCache =
                 [b \in DOMAIN mm.prCache \cup {msg.branch} |->
                     IF b = msg.branch THEN msg.info ELSE mm.prCache[b]]],
             NoCmd, e)

\* case prFetchedMsg: m.prCache[msg.branch] = msg.info
updatePRFetched(mm, msg, e) ==
    Ret([mm EXCEPT !.prCache =
            [b \in DOMAIN mm.prCache \cup {msg.branch} |->
                IF b = msg.branch THEN msg.info ELSE mm.prCache[b]]],
        NoCmd, e)

\* updateCommitDetailLoaded that scrolls back to the top when the detail arrives
updateCommitDetailLoadedTop(mm, msg, e) ==
    IF msg.err # "" THEN Ret([mm EXCEPT !.errMsg = msg.err], NoCmd, e)
    ELSE IF ~msg.detail.nil
    THEN Ret([mm EXCEPT !.activeCommit = msg.detail.v, !.commitDetailScroll = 0], NoCmd, e)
    ELSE Ret(mm, NoCmd, e)

\* case commitDetailLoadedMsg; msg.detail.nil stands for a nil *CommitDetail
updateCommitDetailLoaded(mm, msg, e) ==
    IF msg.err # "" THEN Ret([mm EXCEPT !.errMsg = msg.err], NoCmd, e)
    ELSE IF ~msg.detail.nil THEN Ret([mm EXCEPT !.activeCommit = msg.detail.v], NoCmd, e)
    ELSE Ret(mm, NoCmd, e)

\* the gitInitMsg case starting the initialisation again when it failed
updateGitInitRetry(mm, msg, e) ==
    IF msg.err # "" THEN Ret([mm EXCEPT !.errMsg = msg.err], initGitRepo, e)
    ELSE Ret([mm EXCEPT !.state = StateList], loadWorktrees, e)

\* case gitInitMsg
updateGitInit(mm, msg, e) ==
    IF msg.err # "" THEN Ret([mm EXCEPT !.errMsg = msg.err], NoCmd, e)
    ELSE Ret([mm EXCEPT !.state = StateList], loadWorktrees, e)

\* if msg.err != nil { m.errMsg = msg.err.Error() }
setErr(mm, err) == IF err # "" THEN [mm EXCEPT !.errMsg = err] ELSE mm

\* updateWorktreeCreated that stays in the form, without a reload, on an error
updateWorktreeCreatedStay(mm, msg, e) ==
    IF msg.err # "" THEN Ret(setErr(mm, msg.err), NoCmd, e)
    ELSE Ret(resetNewModal([mm EXCEPT !.state = StateList]), loadWorktrees, e)

\* case worktreeCreatedMsg
updateWorktreeCreated(mm, msg, e) ==
    Ret(setErr(resetNewModal([mm EXCEPT !.state = StateList]), msg.err), loadWorktrees, e)

\* the cursor step of case worktreeDeletedMsg
deletedCursor(mm) == IF mm.cursor > 0 THEN [mm EXCEPT !.cursor = mm.cursor - 1] ELSE mm

\* updateWorktreeDeleted that also empties the PR cache
updateWorktreeDeletedFlush(mm, msg, e) ==
    Ret(deletedCursor(setErr([mm EXCEPT !.state = StateList, !.prCache = <<>>], msg.err)),
        loadWorktrees, e)

\* the worktreeDeletedMsg case that leaves the mode as it is
updateWorktreeDeletedKeepMode(mm, msg, e) ==
    Ret(deletedCursor(setErr(mm, msg.err)), loadWorktrees, e)

\* case worktreeDeletedMsg
updateWorktreeDeleted(mm, msg, e) ==
    Ret(deletedCursor(setErr([mm EXCEPT !.state = StateList], msg.err)), loadWorktrees, e)

\* the worktreeRenamedMsg case staying in the modal, without a reload, on an error
updateWorktreeRenamedStay(mm, msg, e) ==
    IF msg.err # "" THEN Ret(setErr(mm, msg.err), NoCmd, e)
    ELSE Ret([mm EXCEPT !.state = StateList], loadWorktrees, e)

\* case worktreeRenamedMsg
updateWorktreeRenamed(mm, msg, e) ==
    Ret(setErr([mm EXCEPT !.state = StateList], msg.err), loadWorktrees, e)

Update(mm, msg, e) ==
    CASE msg.type = "tea.WindowSizeMsg" -> updateWindowSize(mm, msg, e)
      [] msg.type = "gitCheckMsg" -> updateGitCheck(mm, msg, e)
      [] msg.type = "worktreesLoadedMsg" -> updateWorktreesLoaded(mm, msg, e)
      [] msg.type = "prFetchedMsg" -> updatePRFetched(mm, msg, e)
      [] msg.type = "commitDetailLoadedMsg" -> updateCommitDetailLoaded(mm, msg, e)
      [] msg.type = "gitInitMsg" -> updateGitInit(mm, msg, e)
      [] msg.type = "worktreeCreatedMsg" -> updateWorktreeCreated(mm, msg, e)
      [] msg.type = "worktreeDeletedMsg" -> updateWorktreeDeleted(mm, msg, e)
      [] msg.type = "worktreeRenamedMsg" -> updateWorktreeRenamed(mm, msg, e)
      [] msg.type = "tea.KeyMsg" -> handleKey(mm, msg.key, e)
      [] OTHER -> Ret(mm, NoCmd, e)

\* ── view.go: truncate, wrapWords ───────────────────────────────────────────

\* the rune U+2026, one column wide
Ellipsis == "U+2026"

\* runes outside ASCII: U+4E16, a CJK ideograph, three bytes in UTF-8 and two
\* terminal columns wide; U+00E9, e with acute, two bytes and one column
Wide == "U+4E16"
Accent == "U+00E9"

\* the number of bytes of the rune's UTF-8 encoding: what len(s) counts
RuneBytes(r) == IF r \in { Ellipsis, Wide } THEN 3 ELSE IF r = Accent THEN 2 ELSE 1

\* the number of terminal columns of the rune: what lipgloss.Width counts
RuneWidth(r) == IF r = Wide THEN 2 ELSE 1

\* len(s) of a Go string
RECURSIVE ByteLen(_)
ByteLen(s) == IF s = <<>> THEN 0 ELSE RuneBytes(Head(s)) + ByteLen(Tail(s))

\* lipgloss.Width(s) of a one-line string
RECURSIVE Width(_)
Width(s) == IF s = <<>> THEN 0 ELSE RuneWidth(Head(s)) + Width(Tail(s))

truncate(s, max) ==
    IF max <= 0 THEN <<>>
    ELSE IF Len(s) <= max THEN s
    ELSE IF max <= 1 THEN SubSeq(s, 1, max)
    ELSE Append(SubSeq(s, 1, max - 1), Ellipsis)

\* strings.Split(s, sep) for a one-rune separator out of seps: every piece, the
\* empty ones included
RECURSIVE splitLoop(_, _, _, _, _)
splitLoop(s, i, cur, acc, seps) ==
    IF i > Len(s) THEN Append(acc, cur)
    ELSE IF s[i] \in seps THEN splitLoop(s, i + 1, <<>>, Append(acc, cur), seps)
    ELSE splitLoop(s, i + 1, Append(cur, s[i]), acc, seps)

SplitLines(s) == splitLoop(s, 1, <<>>, <<>>, { "\n" })

\* strings.Fields: the maximal runs of non-space runes
Fields(s) == SelectSeq(splitLoop(s, 1, <<>>, <<>>, { " ", "\t", "\n", "\r" }),
                       LAMBDA w : w # <<>>)

\* the inner loop of wrapWords over the words of one paragraph, with its final
\* `if line != ""`
RECURSIVE wrapLoop(_, _, _, _, _)
\* wrapLoop that forgets the joining space when it tests whether the word fits
RECURSIVE wrapLoopTight(_, _, _, _, _)
wrapLoopTight(words, i, line, lines, width) ==
    IF i > Len(words) THEN (IF line # <<>> THEN Append(lines, line) ELSE lines)
    ELSE LET w == words[i] IN
         IF line = <<>> THEN wrapLoopTight(words, i + 1, w, lines, width)
         ELSE IF ByteLen(line) + ByteLen(w) <= width
         THEN wrapLoopTight(words, i + 1, line \o <<" ">> \o w, lines, width)
         ELSE wrapLoopTight(words, i + 1, w, Append(lines, line), width)

wrapLoop(words, i, line, lines, width) ==
    IF i > Len(words) THEN (IF line # <<>> THEN Append(lines, line) ELSE lines)
    ELSE LET w == words[i] IN
         IF line = <<>> THEN wrapLoop(words, i + 1, w, lines, width)
         ELSE IF ByteLen(line) + 1 + ByteLen(w) <= width
         THEN wrapLoop(words, i + 1, line \o <<" ">> \o w, lines, width)
         ELSE wrapLoop(words, i + 1, w, Append(lines, line), width)

\* the outer loop of wrapWords over the paragraphs
RECURSIVE wrapParagraphs(_, _, _, _)
wrapParagraphs(paragraphs, i, lines, width) ==
    IF i > Len(paragraphs) THEN lines
    ELSE wrapParagraphs(paragraphs, i + 1,
                        wrapLoop(Fields(paragraphs[i]), 1, <<>>, lines, width), width)

wrapWords(s, width) ==
    IF width <= 0 THEN <<s>>
    ELSE wrapParagraphs(SplitLines(s), 1, <<>>, width)

\* ── view.go: prBadge ────────────────────────────────────────────────────────

\* strings.ToUpper on the PR states gh prints
ToUpperState(st) ==
    CASE st = "open" -> "OPEN"
      [] st = "merged" -> "MERGED"
      [] st = "closed" -> "CLOSED"
      [] OTHER -> st

\* the badge without its colour: its text and the PR number it shows
Badge(text, number) == [text |-> text, number |-> number]

prBadge(mm, branch) ==
    IF ~mm.ghAvailable THEN Badge("", 0)
    ELSE IF branch \notin DOMAIN mm.prCache THEN Badge("", 0)
    ELSE LET info == mm.prCache[branch] IN
         IF info.nil THEN Badge("no PR", 0)
         ELSE CASE ToUpperState(info.State) = "OPEN" -> Badge("open", info.Number)
                [] ToUpperState(info.State) = "MERGED" -> Badge("merged", info.Number)
                [] ToUpperState(info.State) = "CLOSED" -> Badge("closed", info.Number)
                [] OTHER -> Badge("", 0)

\* ── view.go: renderCommitDetailOverlay ──────────────────────────────────────

\* one content line of the overlay without its colours: what it shows, its
\* text, and the relative time the header line carries
Line(kind, text, time) == [kind |-> kind, text |-> text, time |-> time]

BlankLine == Line("", <<>>, "")

overlayInnerW(mm) == Max((mm.width * 80) \div 100, 40) - 6

overlayOuterH(mm) == Max((mm.height * 80) \div 100, 10)

\* innerH - 2, at least 1
overlayScrollH(mm) == Max((overlayOuterH(mm) - 4) - 2, 1)

overlayFileLines(cd) ==
    IF Len(cd.Files) > 0
    THEN << BlankLine, Line("Files changed", <<>>, ""), BlankLine >> \o
         [i \in 1..Len(cd.Files) |-> Line(cd.Files[i].Status, cd.Files[i].Path, "")]
    ELSE <<>>

overlayDiffLines(cd, innerW) ==
    IF Len(cd.Diff) > 0
    THEN << BlankLine, Line("Diff", <<>>, ""), BlankLine >> \o
         [i \in 1..Len(cd.Diff) |->
             Line(cd.Diff[i].Type, truncate(cd.Diff[i].Content, innerW), "")]
    ELSE <<>>

\* the slice `lines` before scrolling
overlayLines(mm) ==
    LET cd == mm.activeCommit
        innerW == overlayInnerW(mm)
        wrapped == wrapWords(cd.Body, innerW)
    IN  << Line("header", cd.ShortHash, cd.RelTime), BlankLine,
           Line("subject", truncate(cd.Subject, innerW), "") >> \o
        (IF cd.Body # <<>>
         THEN <<BlankLine>> \o [i \in 1..Len(wrapped) |-> Line("body", wrapped[i], "")]
         ELSE <<>>) \o
        (IF ~cd.Loaded
         THEN << BlankLine, Line("Loading", <<>>, "") >>
         ELSE overlayFileLines(cd) \o overlayDiffLines(cd, innerW))

overlayMaxScroll(mm) == Max(Len(overlayLines(mm)) - overlayScrollH(mm), 0)

\* the local `scroll`: the stored offset clamped for this frame
overlayScroll(mm) == Min(mm.commitDetailScroll, overlayMaxScroll(mm))

\* overlayVisible without the padding loop
overlayVisibleUnpadded(mm) ==
    LET lines == overlayLines(mm)
        scroll == overlayScroll(mm)
        from == IF scroll > 0 /\ scroll < Len(lines) THEN Drop(lines, scroll) ELSE lines
    IN  IF Len(from) > overlayScrollH(mm) THEN Take(from, overlayScrollH(mm)) ELSE from

\* the slice `visible`: cut at scroll, cut to scrollH, padded to scrollH
overlayVisible(mm) ==
    LET lines == overlayLines(mm)
        scroll == overlayScroll(mm)
        from == IF scroll > 0 /\ scroll < Len(lines) THEN Drop(lines, scroll) ELSE lines
        cut == IF Len(from) > overlayScrollH(mm) THEN Take(from, overlayScrollH(mm)) ELSE from
    IN  cut \o [i \in 1..(overlayScrollH(mm) - Len(cut)) |-> BlankLine]

\* ── the repository the commands run against ─────────────────────────────────

Commit(hash, message, relTime) == [Hash |-> hash, Message |-> message, RelTime |-> relTime]

CommitH1 == Commit(<<"h","1">>, <<"o","n","e">>, "1h ago")
CommitH2 == Commit(<<"h","2">>, <<"t","w","o">>, "2h ago")

Worktree(name, path, branch, isMain, commits) ==
    [Name |-> name, Path |-> path, Branch |-> branch, IsMain |-> isMain, Commits |-> commits]

\* git.ListWorktrees: the first block is the primary worktree (IsMain: i == 0)
WtMain == Worktree(<<"m">>, Root, <<"m">>, TRUE, <<CommitH1>>)
WtMain2 == Worktree(<<"m">>, Root, <<"m">>, TRUE, <<CommitH1, CommitH2>>)
WtA == Worktree(<<"a">>, wtPathFor(Root, <<"a">>), <<"a">>, FALSE, <<CommitH1>>)
WtB == Worktree(<<"b">>, wtPathFor(Root, <<"b">>), <<"b">>, FALSE, <<>>)

\* one result of git.ListWorktrees with the repo-summary calls of loadWorktrees
Snapshot(worktrees, stashCount) == [worktrees |-> worktrees, stashCount |-> stashCount]

\* error texts: ListWorktrees wraps its error, createWorktree has a fixed text, the
\* other operations pass on what git printed
ErrList == "git worktree list: exit status 128"
ErrNoCommits == "repo has no commits yet"
ErrGit == "fatal: git failed"

\* the outputs of the six `git show` calls of GetCommitDetail: those of the commit
\* when git can show it, all empty when it cannot (the errors are discarded there)
GitShow(sha, ok) ==
    IF ~ok
    THEN [shortHash |-> <<>>, subject |-> <<>>, body |-> <<>>, relTime |-> "",
          files |-> <<>>, diff |-> << [Type |-> " ", Content |-> <<>>] >>]
    ELSE IF sha = CommitH1.Hash
    THEN [shortHash |-> sha, subject |-> CommitH1.Message, body |-> <<"b","o"," ","d","y">>,
          relTime |-> CommitH1.RelTime,
          files |-> << [Status |-> "M", Path |-> <<"f">>] >>,
          diff |-> << [Type |-> "diff", Content |-> <<"d","i","f","f">>],
                      [Type |-> "+", Content |-> <<"+","x">>] >>]
    ELSE [shortHash |-> sha, subject |-> CommitH2.Message, body |-> <<>>,
          relTime |-> CommitH2.RelTime,
          files |-> <<>>, diff |-> << [Type |-> " ", Content |-> <<>>] >>]

\* git.GetCommitDetail: never returns an error, always Loaded
GetCommitDetail(out) ==
    [ ShortHash |-> out.shortHash, Subject |-> out.subject, Body |-> out.body,
      RelTime |-> out.relTime, Files |-> out.files, Diff |-> out.diff, Loaded |-> TRUE ]

\* a non-nil *CommitDetail
Ptr(v) == [nil |-> FALSE, v |-> v]

\* git.GetPRInfo: nil when gh fails or no PR exists, the PR otherwise
GetPRInfo(e) == IF e.gh THEN { NilPR, PR("OPEN", 1) } ELSE { NilPR }

\* ── model.go: what running a command produces ───────────────────────────────

\* the message, the environment afterwards, whether an external call failed, and
\* the calls made to the functions of package git that change the repository or
\* the metadata store, in the order made
OutCalling(msg, e, fault, calls) == [msg |-> msg, env |-> e, fault |-> fault, calls |-> calls]
Out(msg, e, fault) == OutCalling(msg, e, fault, <<>>)

runCheckGitRepo(e) == { Out(gitCheckMsg(e.isGit), e, FALSE) }

runLoadWorktrees(snaps, e) ==
    { Out(worktreesLoadedErr(ErrList), e, TRUE) } \cup
    { Out([ type |-> "worktreesLoadedMsg", worktrees |-> s.worktrees, repoName |-> "r",
            curBranch |-> "m", remoteURL |-> "host/o/r", stashCount |-> s.stashCount,
            fetchedAgo |-> "1m ago", defaultBranch |-> "m",
            ghAvailable |-> e.gh, hasCommits |-> e.hasCommits, err |-> "" ], e, FALSE)
      : s \in snaps }

runLoadCommitDetail(c, e) ==
    { Out(commitDetailLoadedMsg(Ptr(GetCommitDetail(GitShow(c.sha, ok))), ""), e, ~ok)
      : ok \in BOOLEAN }

runFetchPR(c, e) == { Out(prFetchedMsg(c.branch, info), e, FALSE) : info \in GetPRInfo(e) }

runInitGitRepo(e) ==
    { OutCalling(gitInitMsg(ErrGit), e, TRUE, << <<"InitRepo">> >>),
      OutCalling(gitInitMsg(""), [e EXCEPT !.isGit = TRUE], FALSE, << <<"InitRepo">> >>) }

\* createWorktree without the HasCommits test: git worktree add fails in a
\* repository without commits
runCreateWorktreeUnchecked(c, e) ==
    LET add == <<"AddWorktree", c.branch, c.path>>
        save == <<"SaveWorktreeMeta", c.branch, c.displayName, c.description>>
    IN  { OutCalling(worktreeCreatedMsg(ErrGit), e, TRUE, <<add>>) } \cup
        IF e.hasCommits
        THEN { OutCalling(worktreeCreatedMsg(""), e, FALSE, <<add, save>>) }
        ELSE {}

\* the closure of createWorktree: HasCommits, then AddWorktree, then
\* SaveWorktreeMeta, whose error is discarded
runCreateWorktree(c, e) ==
    LET add == <<"AddWorktree", c.branch, c.path>>
        save == <<"SaveWorktreeMeta", c.branch, c.displayName, c.description>>
    IN  IF ~e.hasCommits
        THEN { Out(worktreeCreatedMsg(ErrNoCommits), e, FALSE) }
        ELSE { OutCalling(worktreeCreatedMsg(ErrGit), e, TRUE, <<add>>),
               OutCalling(worktreeCreatedMsg(""), e, FALSE, <<add, save>>) }

runDeleteWorktree(c, e) ==
    LET calls == << <<"DeleteWorktreeMeta", c.branch>>, <<"RemoveWorktree", c.path>> >>
    IN  { OutCalling(worktreeDeletedMsg(ErrGit), e, TRUE, calls),
          OutCalling(worktreeDeletedMsg(""), e, FALSE, calls) }

runRenameWorktree(c, e) ==
    LET calls == << <<"RenameBranch", c.oldName, c.newName>> >>
    IN  { OutCalling(worktreeRenamedMsg(ErrGit), e, TRUE, calls),
          OutCalling(worktreeRenamedMsg(""), e, FALSE, calls) }

run(snaps, c, e) ==
    CASE c.op = "checkGitRepo" -> runCheckGitRepo(e)
      [] c.op = "loadWorktrees" -> runLoadWorktrees(snaps, e)
      [] c.op = "loadCommitDetail" -> runLoadCommitDetail(c, e)
      [] c.op = "fetchPR" -> runFetchPR(c, e)
      [] c.op = "initGitRepo" -> runInitGitRepo(e)
      [] c.op = "createWorktree" -> runCreateWorktree(c, e)
      [] c.op = "deleteWorktree" -> runDeleteWorktree(c, e)
      [] c.op = "renameWorktree" -> runRenameWorktree(c, e)
      [] OTHER -> {}

\* ── the inputs explored ─────────────────────────────────────────────────────

(***************************************************************************)
(* A scenario fixes the inputs one specification explores: the keys the    *)
(* user presses, the text fields edited (1..3 of the create form, 4 the     *)
(* rename field) and the runes typed into them, the repository             *)
(* snapshots a load can return, the operations whose external call may     *)
(* fail, the operations that finish before the user's next key press (the  *)
(* others may finish arbitrarily late), the initial environments, the      *)
(* terminal sizes (reported at any time, or only by the WindowSizeMsg of   *)
(* start-up), the scroll offsets and the picker rows the user moves        *)
(* through, and the bounds.                                                *)
(***************************************************************************)

AllKeys ==
    { KeyUp, KeyDown, KeyEnter, KeyEsc, KeyTab, KeyShiftTab, KeyBackspace, KeySpace, KeyCtrlC,
      Rune("k"), Rune("j"), Rune("q"), Rune("n"), Rune("d"), Rune("e"), Rune("c"),
      Rune("y"), Rune("i"), Rune("x") }

AllOps ==
    { "checkGitRepo", "loadWorktrees", "loadCommitDetail", "fetchPR", "initGitRepo",
      "createWorktree", "deleteWorktree", "renameWorktree" }

Env(isGit, integrated, hasCommits, gh) ==
    [isGit |-> isGit, integrated |-> integrated, shellSetup |-> FALSE,
     hasCommits |-> hasCommits, gh |-> gh, cdPath |-> <<>>]

\* bounds of the specification Spec
MainMaxPending == 1
MainMaxLen == 1

Main ==
    [ keys |-> AllKeys \ { KeyTab, KeyShiftTab, KeySpace },
      typeChars |-> { "y" },
      fields |-> { 1, 4 },
      snaps |-> { Snapshot(<<WtMain, WtA>>, 1) },
      failing |-> AllOps \ {"loadCommitDetail"},
      prompt |-> { "checkGitRepo", "initGitRepo", "loadCommitDetail", "createWorktree",
                   "renameWorktree" },
      envs |-> { Env(g, TRUE, TRUE, FALSE) : g \in BOOLEAN },
      sizes |-> { <<80, 24>> },
      resizeAnytime |-> FALSE,
      scrolls |-> { 0 },
      types |-> { 0 },
      maxPending |-> MainMaxPending,
      maxLen |-> MainMaxLen ]

\* bounds of the specification SpecPr
PrMaxPending == 2

\* pull-request lookups: gh installed or not, two linked worktrees, list navigation
Pr ==
    [ keys |-> { KeyUp, KeyDown, Rune("j"), Rune("k"), KeyEnter, KeyEsc },
      typeChars |-> {},
      fields |-> {},
      snaps |-> { Snapshot(<<WtMain, WtA, WtB>>, 0) },
      failing |-> {},
      prompt |-> { "checkGitRepo", "loadCommitDetail" },
      envs |-> { Env(TRUE, TRUE, TRUE, g) : g \in BOOLEAN },
      sizes |-> { <<80, 24>> },
      resizeAnytime |-> FALSE,
      scrolls |-> { 0 },
      types |-> { 0 },
      maxPending |-> PrMaxPending,
      maxLen |-> 0 ]

\* bounds of the specification SpecDetail
DetailMaxPending == 2
DetailMaxScroll == 2

\* the commit pane and the commit-detail overlay: a worktree with two commits, a
\* terminal that is resized between a tall and a short window
Detail ==
    [ keys |-> { KeyUp, KeyDown, Rune("j"), Rune("k"), KeyEnter, KeyEsc },
      typeChars |-> {},
      fields |-> {},
      snaps |-> { Snapshot(<<WtMain2, WtA>>, 0) },
      failing |-> {},
      prompt |-> { "checkGitRepo", "loadWorktrees" },
      envs |-> { Env(TRUE, TRUE, TRUE, FALSE) },
      sizes |-> { <<80, 24>>, <<80, 10>> },
      resizeAnytime |-> TRUE,
      scrolls |-> 0..DetailMaxScroll,
      types |-> { 0 },
      maxPending |-> DetailMaxPending,
      maxLen |-> 0 ]

\* bounds of the specification SpecForm
FormMaxPending == 1
FormMaxLen == 1
FormMaxType == 1

\* the create form: every field edited, the picker moved, creation failing or not,
\* in a repository with and without commits
Form ==
    [ keys |-> { Rune("n"), Rune("y"), KeyTab, KeyShiftTab, KeyUp, KeyDown, KeyEnter,
                 KeyEsc, KeyBackspace },
      typeChars |-> { "y" },
      fields |-> { 1, 2, 3 },
      snaps |-> { Snapshot(<<WtMain>>, 0) },
      failing |-> { "createWorktree" },
      prompt |-> { "checkGitRepo", "loadWorktrees", "createWorktree" },
      envs |-> { Env(TRUE, TRUE, h, FALSE) : h \in BOOLEAN },
      sizes |-> { <<80, 24>> },
      resizeAnytime |-> FALSE,
      scrolls |-> { 0 },
      types |-> 0..FormMaxType,
      maxPending |-> FormMaxPending,
      maxLen |-> FormMaxLen ]

\* bounds of the specification SpecDel
DelMaxPending == 2

\* deletion: three worktrees of which the middle one can be removed, the list as
\* it is before and after the removal, deletion and reloads failing or not, gh
\* installed
Del ==
    [ keys |-> { KeyUp, KeyDown, Rune("d"), Rune("y"), Rune("n"), KeyEsc },
      typeChars |-> {},
      fields |-> {},
      snaps |-> { Snapshot(<<WtMain, WtA, WtB>>, 0), Snapshot(<<WtMain, WtB>>, 0) },
      failing |-> { "deleteWorktree", "loadWorktrees" },
      prompt |-> { "checkGitRepo" },
      envs |-> { Env(TRUE, TRUE, TRUE, TRUE) },
      sizes |-> { <<80, 24>> },
      resizeAnytime |-> FALSE,
      scrolls |-> { 0 },
      types |-> { 0 },
      maxPending |-> DelMaxPending,
      maxLen |-> 0 ]

\* bounds of the specification SpecModes
ModesMaxPending == 1
ModesMaxLen == 1

\* every mode, every key and every command: a directory that is not yet a
\* repository, a repository whose shell integration has not been offered yet, and
\* one where it has; gh installed; worktrees
\* with two and with no commits; every command failing or not; each command
\* completes before the next key is read
Modes ==
    [ keys |-> AllKeys,
      typeChars |-> { "y" },
      fields |-> { 1, 4 },
      snaps |-> { Snapshot(<<WtMain2, WtB>>, 1) },
      failing |-> AllOps,
      prompt |-> AllOps,
      envs |-> { Env(FALSE, TRUE, TRUE, TRUE), Env(TRUE, FALSE, TRUE, TRUE),
                 Env(TRUE, TRUE, TRUE, TRUE) },
      sizes |-> { <<80, 24>> },
      resizeAnytime |-> FALSE,
      scrolls |-> { 0 },
      types |-> { 0 },
      maxPending |-> ModesMaxPending,
      maxLen |-> ModesMaxLen ]

\* bounds of the specification SpecReentry
ReentryMaxPending == 1
ReentryMaxLen == 1
ReentryMaxScroll == 1
ReentryMaxType == 1

\* modes entered again after an earlier use: the create form, the rename field, the
\* commit pane of a worktree with two commits and the overlay, each left with
\* values in its fields; a reload of the list may complete while a modal is open
Reentry ==
    [ keys |-> { KeyUp, KeyDown, KeyEnter, KeyEsc, KeyBackspace, Rune("n"), Rune("e"),
                 Rune("y") },
      typeChars |-> { "y" },
      fields |-> { 1, 4 },
      snaps |-> { Snapshot(<<WtMain2>>, 0) },
      failing |-> {},
      prompt |-> AllOps \ { "loadWorktrees" },
      envs |-> { Env(TRUE, TRUE, TRUE, FALSE) },
      sizes |-> { <<80, 24>> },
      resizeAnytime |-> FALSE,
      scrolls |-> 0..ReentryMaxScroll,
      types |-> 0..ReentryMaxType,
      maxPending |-> ReentryMaxPending,
      maxLen |-> ReentryMaxLen ]

\* bounds of the specification SpecBadges
BadgesMaxPending == 1

\* PR badges: two linked worktrees, list navigation and deletion, deletes and
\* reloads failing or not, gh installed or not at the start
Badges ==
    [ keys |-> { KeyUp, KeyDown, Rune("d"), Rune("y") },
      typeChars |-> {},
      fields |-> {},
      snaps |-> { Snapshot(<<WtMain, WtA, WtB>>, 0) },
      failing |-> { "deleteWorktree", "loadWorktrees" },
      prompt |-> { "checkGitRepo" },
      envs |-> { Env(TRUE, TRUE, TRUE, g) : g \in BOOLEAN },
      sizes |-> { <<80, 24>> },
      resizeAnytime |-> FALSE,
      scrolls |-> { 0 },
      types |-> { 0 },
      maxPending |-> BadgesMaxPending,
      maxLen |-> 0 ]

\* the outcomes of command c the scenario explores
Outcomes(sc, c, e) == { o \in run(sc.snaps, c, e) : o.fault => c.op \in sc.failing }

\* the text the key would edit, <<>> when it edits none: typed runes and backspace
\* in the rename field and in fields 1..3 of the create form
EditedField(mm, k) ==
    IF mm.errMsg # "" \/ k.Type \notin {"KeyRunes", "KeySpace", "KeyBackspace"} THEN <<>>
    ELSE IF mm.state = StateEditWorktree THEN << 4, mm.editName >>
    ELSE IF mm.state = StateNewWorktree /\ ~mm.newTypeListOpen
    THEN CASE mm.newActiveField = 1 -> << 1, mm.newDisplayName >>
           [] mm.newActiveField = 2 -> << 2, mm.newBranch >>
           [] mm.newActiveField = 3 -> << 3, mm.newDescription >>
           [] OTHER -> <<>>
    ELSE <<>>

\* the longest text explored in a field: an auto-derived branch is the type, "/"
\* and the slug of the name
FieldCap(sc, mm, f) ==
    IF f = 2 THEN Len(branchTypes[mm.newTypeIdx + 1]) + 1 + sc.maxLen ELSE sc.maxLen

\* the edits the scenario explores: fields of sc.fields only, runes of sc.typeChars,
\* texts of bounded length
TypingOK(sc, mm, k) ==
    LET t == EditedField(mm, k) IN
    t # <<>> =>
        /\ t[1] \in sc.fields
        /\ k.Type # "KeyBackspace" =>
              (k.Runes[1] \in sc.typeChars /\ Len(t[2]) < FieldCap(sc, mm, t[1]))

\* ── the event loop ──────────────────────────────────────────────────────────

\* the runtime starts the command Update returned; tea.Quit ends the program, and
\* what its commands still produce reaches nobody
Issue(p, cmd) == IF cmd.op \in {"nil", "tea.Quit"} THEN p ELSE p (+) SetToBag({cmd})

Apply(sc, p, r) ==
    /\ m' = r.m
    /\ env' = r.env
    /\ quit' = (r.cmd = QuitCmd)
    /\ pending' = IF r.cmd = QuitCmd THEN EmptyBag ELSE Issue(p, r.cmd)
    /\ BagCardinality(pending') <= sc.maxPending
    /\ m'.commitDetailScroll \in sc.scrolls
    /\ m'.newTypeIdx \in sc.types
    /\ call' = call

\* a key press reaches Update
KeyStep(sc, k) ==
    /\ ~quit
    /\ \A c \in BagToSet(pending) : c.op \notin sc.prompt
    /\ TypingOK(sc, m, k)
    /\ Apply(sc, pending, Update(m, KeyMsg(k), env))

\* the terminal is resized
ResizeStep(sc, sz) ==
    /\ ~quit
    /\ <<m.width, m.height>> # sz
    /\ (sc.resizeAnytime \/ BagIn(checkGitRepo, pending))
    /\ Apply(sc, pending, Update(m, WindowSizeMsg(sz[1], sz[2]), env))

\* command c finishes with outcome o and its message reaches Update
CompleteStep(sc, c, o) ==
    /\ ~quit
    /\ BagIn(c, pending)
    /\ o \in Outcomes(sc, c, env)
    /\ Apply(sc, pending (-) SetToBag({c}), Update(m, o.msg, o.env))

KeyPress(sc) == \E k \in sc.keys : KeyStep(sc, k)

Resize(sc) == \E sz \in sc.sizes : ResizeStep(sc, sz)

Complete(sc) ==
    \E c \in BagToSet(pending) : \E o \in Outcomes(sc, c, env) : CompleteStep(sc, c, o)

\* the gh binary is installed on, or removed from, PATH while the program runs:
\* what exec.LookPath and exec.Command find from then on
GhChange ==
    /\ ~quit
    /\ env' = [env EXCEPT !.gh = ~env.gh]
    /\ UNCHANGED << m, pending, quit, call >>

\* no text helper is called on its own
NoCall == [fn |-> "none", s |-> <<>>, width |-> 0, out |-> <<>>, done |-> FALSE]

\* InitialModel, and Init() has handed checkGitRepo to the runtime
InitIn(sc) ==
    /\ m = InitialModel
    /\ pending = SetToBag({checkGitRepo})
    /\ env \in sc.envs
    /\ quit = FALSE
    /\ call = NoCall

Init == InitIn(Main)

Next == KeyPress(Main) \/ Resize(Main) \/ Complete(Main)

Spec == Init /\ [][Next]_vars

InitPr == InitIn(Pr)

NextPr == KeyPress(Pr) \/ Resize(Pr) \/ Complete(Pr) \/ GhChange

SpecPr == InitPr /\ [][NextPr]_vars

InitDetail == InitIn(Detail)

NextDetail == KeyPress(Detail) \/ Resize(Detail) \/ Complete(Detail)

SpecDetail == InitDetail /\ [][NextDetail]_vars

InitForm == InitIn(Form)

NextForm == KeyPress(Form) \/ Resize(Form) \/ Complete(Form)

SpecForm == InitForm /\ [][NextForm]_vars

\* ── properties ──────────────────────────────────────────────────────────────

InitDel == InitIn(Del)

NextDel == KeyPress(Del) \/ Resize(Del) \/ Complete(Del)

SpecDel == InitDel /\ [][NextDel]_vars

InitModes == InitIn(Modes)

NextModes == KeyPress(Modes) \/ Resize(Modes) \/ Complete(Modes)

SpecModes == InitModes /\ [][NextModes]_vars

\* the runtime delivers the message of every command that finishes, and every
\* command finishes: Complete is taken if it stays enabled
FairModes == SpecModes /\ WF_vars(Complete(Modes))

InitReentry == InitIn(Reentry)

NextReentry == KeyPress(Reentry) \/ Resize(Reentry) \/ Complete(Reentry)

SpecReentry == InitReentry /\ [][NextReentry]_vars

\* ── the text helpers called on their own ────────────────────────────────────

\* bounds of the specification SpecText
TruncMaxLen == 3
TruncMaxWidth == 4
WrapMaxLen == 5
WrapMaxWidth == 3
SlugMaxLen == 4

\* "Feat: Auth Refresh" and "a/b  c"
SlugExample1 ==
    <<"F","e","a","t",":"," ","A","u","t","h"," ","R","e","f","r","e","s","h">>
SlugExample2 == <<"a","/","b"," "," ","c">>

\* the runes the calls are made with: a narrow and a wide one for truncate;
\* letters, both separators of words and of paragraphs and a wide rune for
\* wrapWords; a letter of either case, a digit, every separator slugify reads,
\* a rune it drops and a letter outside ASCII for slugify
TruncRunes == { "a", Wide }
WrapRunes == { "a", "b", " ", "\n", Wide }
SlugRunes == { "a", "B", "1", "-", "/", " ", "_", ":", Accent }

Call(fn, s, width) == [fn |-> fn, s |-> s, width |-> width, out |-> <<>>, done |-> FALSE]

Returned(out) ==
    /\ ~call.done
    /\ call' = [call EXCEPT !.out = out, !.done = TRUE]
    /\ UNCHANGED << m, pending, env, quit >>

CallTruncate == call.fn = "truncate" /\ Returned(truncate(call.s, call.width))

CallWrapWords == call.fn = "wrapWords" /\ Returned(wrapWords(call.s, call.width))

CallSlugify == call.fn = "slugify" /\ Returned(slugify(call.s))

\* one call of one helper, not yet made: truncate and wrapWords with every string
\* and width of the bounds, slugify with every string of the bounds and with the
\* two examples
InitText ==
    /\ m = InitialModel
    /\ pending = EmptyBag
    /\ env = Env(TRUE, TRUE, TRUE, FALSE)
    /\ quit = FALSE
    /\ \/ \E k \in 0..TruncMaxLen : \E s \in [1..k -> TruncRunes] :
             \E w \in 0..TruncMaxWidth : call = Call("truncate", s, w)
       \/ \E k \in 0..WrapMaxLen : \E s \in [1..k -> WrapRunes] :
             \E w \in 0..WrapMaxWidth : call = Call("wrapWords", s, w)
       \/ \E k \in 0..SlugMaxLen : \E s \in [1..k -> SlugRunes] : call = Call("slugify", s, 0)
       \/ \E s \in { SlugExample1, SlugExample2 } : call = Call("slugify", s, 0)

NextText == CallTruncate \/ CallWrapWords \/ CallSlugify

SpecText == InitText /\ [][NextText]_vars

\* the keys handleList reads as "up" and as "down"
UpKeys == { KeyUp, Rune("k") }
DownKeys == { KeyDown, Rune("j") }

\* the key reaches the handler of the current state: no banner swallows it
InState(st) == m.state = st /\ m.errMsg = ""

\* nothing outside the model changes, no command is issued, the program runs on
NoEffect == pending' = pending /\ env' = env /\ quit' = quit

\* C1: in List mode every up/down (k/j) key press leaves the cursor within
\* 0..len(worktrees); "up" at cursor 0 and "down" at cursor len(worktrees) leave
\* the cursor where it is.
C1_CursorInRange ==
    [][ \A k \in UpKeys \cup DownKeys :
          (InState(StateList) /\ KeyStep(Main, k)) =>
              /\ 0 <= m'.cursor /\ m'.cursor <= Len(m'.worktrees)
              /\ (k \in UpKeys /\ m.cursor = 0) => m'.cursor = 0
              /\ (k \in DownKeys /\ m.cursor = Len(m.worktrees)) => m'.cursor = m.cursor
      ]_vars

\* C1: the cursor has been moved down to the last of at least two worktrees, where
\* a further "down" is pressed
C1_Witness ==
    /\ InState(StateList)
    /\ Len(m.worktrees) >= 2 /\ m.cursor = Len(m.worktrees)
    /\ ENABLED KeyStep(Main, KeyDown)

\* what C2 says of the key press k made while the banner shows
BannerSwallows(k) ==
    (m.errMsg # "" /\ KeyStep(Main, k)) =>
        /\ m' = [m EXCEPT !.errMsg = ""]
        /\ pending' = pending /\ env' = env
        /\ ~quit'

C3_ErrorKeptUntilDismissed ==
    [][ (m.errMsg # "" /\ m'.errMsg # m.errMsg) =>
            (m'.errMsg = "" /\ \E k \in Main.keys : KeyStep(Main, k))
      ]_vars

\* the PR cache entry of branch b is the same before and after the step
SameEntry(b) ==
    /\ (b \in DOMAIN m'.prCache) <=> (b \in DOMAIN m.prCache)
    /\ b \in DOMAIN m.prCache => m'.prCache[b] = m.prCache[b]

\* C4: a PR-fetch completion for branch A processed while the cursor is on another
\* worktree B sets the cache entry of A to the fetched result and no other: the
\* entry of B and the badge rendered for B, the cursor and the mode are unchanged.
C4_StalePRResult ==
    [][ \A c \in BagToSet(pending) : \A o \in Outcomes(Pr, c, env) :
          ( /\ c.op = "fetchPR"
            /\ m.cursor > 0 /\ m.worktrees[m.cursor].Branch # c.branch
            /\ CompleteStep(Pr, c, o) ) =>
              /\ c.branch \in DOMAIN m'.prCache /\ m'.prCache[c.branch] = o.msg.info
              /\ \A i \in 1..Len(m.worktrees) :
                    m.worktrees[i].Branch # c.branch => SameEntry(m.worktrees[i].Branch)
              /\ DOMAIN m'.prCache = DOMAIN m.prCache \cup { c.branch }
              /\ prBadge(m', m.worktrees[m.cursor].Branch)
                     = prBadge(m, m.worktrees[m.cursor].Branch)
              /\ m'.cursor = m.cursor /\ m'.state = m.state
      ]_vars

\* C4: the fetch for branch a is still running and the cursor has moved on to
\* the worktree of branch b
C4_Witness ==
    /\ m.state = StateList /\ m.cursor = 3 /\ Len(m.worktrees) = 3
    /\ m.worktrees[3].Branch = <<"b">>
    /\ BagIn(fetchPR(<<"a">>), pending)

\* the hash of the commit the overlay was opened on: the selected commit of the
\* selected worktree, which no key of the overlay changes
OpenedHash == selectedCommits(m)[m.selectedCommitIndex + 1].Hash

\* C5: commit-detail results are resolved by hash: while the overlay is open the
\* detail it holds has the hash of the commit the user opened last, whatever the
\* order in which the detail fetches complete.
C5_DetailOfOpenedCommit ==
    m.state = StateCommitDetail => m.activeCommit.ShortHash = OpenedHash

ScrollInRange(mm) ==
    0 <= mm.commitDetailScroll /\ mm.commitDetailScroll <= overlayMaxScroll(mm)

\* C6: in the overlay an up/down key press keeps the scroll offset within
\* 0..max(0, totalLines - viewportLines), so that an "up" pressed at the bottom
\* shows the window one line higher.
C6_ScrollClamped ==
    [][ \A k \in UpKeys \cup DownKeys :
          (InState(StateCommitDetail) /\ ScrollInRange(m) /\ KeyStep(Detail, k)) =>
              /\ ScrollInRange(m')
              /\ (k \in UpKeys /\ overlayScroll(m) > 0) =>
                     overlayScroll(m') = overlayScroll(m) - 1
      ]_vars

\* the cursor is on the create row or on the primary worktree
OnCreateRowOrPrimary == m.cursor = 0 \/ m.worktrees[m.cursor].IsMain

\* C7: in List mode "d" on the primary worktree or on the create row changes
\* nothing and issues no command, and DeleteConfirm is entered only from List
\* with the cursor on a non-primary worktree.
C7_NoDeleteOfPrimary ==
    [][ /\ (InState(StateList) /\ OnCreateRowOrPrimary /\ KeyStep(Main, Rune("d"))) =>
              (m' = m /\ NoEffect)
        /\ (m.state # StateDeleteConfirm /\ m'.state = StateDeleteConfirm) =>
              (m.state = StateList /\ ~OnCreateRowOrPrimary)
      ]_vars

\* C7: "d" is pressed in List mode with the cursor on the primary worktree
C7_Witness ==
    /\ InState(StateList)
    /\ m.cursor = 1 /\ Len(m.worktrees) >= 2 /\ m.worktrees[1].IsMain
    /\ ENABLED KeyStep(Main, Rune("d"))

\* C8: enter in the rename modal with the field equal to the selected worktree's
\* branch issues no command and sets the mode to List; the worktree list and the
\* cursor are unchanged.
C8_RenameUnchanged ==
    [][ ( /\ InState(StateEditWorktree) /\ m.cursor > 0
          /\ m.editName = m.worktrees[m.cursor].Branch
          /\ KeyStep(Main, KeyEnter) ) =>
              /\ m'.state = StateList
              /\ NoEffect
              /\ m'.worktrees = m.worktrees /\ m'.cursor = m.cursor
      ]_vars

\* C8: the rename modal is open on the worktree of branch a, its field holds
\* "a", and enter is pressed
C8_Witness ==
    /\ InState(StateEditWorktree)
    /\ m.cursor = 2 /\ m.editName = <<"a">> /\ m.worktrees[2].Branch = <<"a">>
    /\ ENABLED KeyStep(Main, KeyEnter)

\* the create command of the form's current display name, branch and description
IsCreateOfForm(c) ==
    /\ c.op = "createWorktree"
    /\ c.displayName = m.newDisplayName
    /\ c.branch = m.newBranch
    /\ c.description = m.newDescription

\* C9: in the create form with the picker closed, enter on a field other than the
\* type issues a create command exactly when display name and branch are both
\* non-empty, and the command carries the form's display name, branch and
\* description; otherwise no command is issued and the mode stays CreateModal.
C9_CreateSubmit ==
    [][ ( /\ InState(StateNewWorktree) /\ ~m.newTypeListOpen /\ m.newActiveField # 0
          /\ KeyStep(Form, KeyEnter) ) =>
              IF m.newDisplayName # <<>> /\ m.newBranch # <<>>
              THEN \E c \in BagToSet(pending') :
                      IsCreateOfForm(c) /\ pending' = pending (+) SetToBag({c})
              ELSE pending' = pending /\ m'.state = StateNewWorktree
      ]_vars

\* C9: a create command with a description is running while the form shows on
\* its description field
C9_Witness ==
    /\ m.state = StateNewWorktree /\ m.newActiveField = 3
    /\ \E c \in BagToSet(pending) : IsCreateOfForm(c) /\ c.description # <<>>

MutationOps == { "createWorktree", "deleteWorktree", "renameWorktree" }

\* C10: processing the completion of a create, delete or rename sets the mode to
\* List and issues exactly one reload, with or without an error; the banner is
\* set to the message's error when it carries one and is left alone otherwise.
C10_MutationCompleted ==
    [][ \A c \in BagToSet(pending) : \A o \in Outcomes(Main, c, env) :
          (c.op \in MutationOps /\ CompleteStep(Main, c, o)) =>
              /\ m'.state = StateList
              /\ pending' = (pending (-) SetToBag({c})) (+) SetToBag({loadWorktrees})
              /\ m'.errMsg = IF o.msg.err # "" THEN o.msg.err ELSE m.errMsg
      ]_vars

\* C10: a failed mutation has been processed: its error shows in List mode and
\* the reload it issued is running
C10_Witness ==
    /\ m.state = StateList /\ m.errMsg = ErrGit
    /\ BagIn(loadWorktrees, pending)

\* the keys that edit a text field of the create form
EditKeys == { k \in Form.keys : k.Type \in {"KeyRunes", "KeySpace", "KeyBackspace"} }

\* key k edits field f of the create form: the form shows with the picker closed
\* and no banner, and f is the active field
EditsField(f, k) ==
    /\ InState(StateNewWorktree) /\ ~m.newTypeListOpen
    /\ m.newActiveField = f /\ k \in EditKeys

\* the branch the form derives from its type and display name
DerivedBranch(mm) ==
    IF slugify(mm.newDisplayName) = <<>>
    THEN branchTypes[mm.newTypeIdx + 1]
    ELSE branchTypes[mm.newTypeIdx + 1] \o <<"/">> \o slugify(mm.newDisplayName)

\* C11: in the create form, while the branch field has not been edited directly
\* since the form was opened, every change of the display name leaves the branch
\* equal to the type alone if the slug of the name is empty and to type "/" slug
\* otherwise; newBranchEdited is set exactly by a rune typed or a backspace
\* pressed in the branch field, and once it is set, for as long as the form
\* stays open, only such an edit alters the branch: a change of the display
\* name and the choice of another type leave it alone.
C11_BranchDerivation ==
    [][ /\ ( /\ m.state = StateNewWorktree /\ m'.state = StateNewWorktree
             /\ ~m.newBranchEdited /\ m'.newDisplayName # m.newDisplayName ) =>
              (m'.newBranch = DerivedBranch(m') /\ ~m'.newBranchEdited)
        /\ \A k \in EditKeys :
              (EditsField(2, k) /\ KeyStep(Form, k)) => m'.newBranchEdited
        /\ (~m.newBranchEdited /\ m'.newBranchEdited) =>
              \E k \in EditKeys : EditsField(2, k) /\ KeyStep(Form, k)
        /\ ( /\ m.state = StateNewWorktree /\ m'.state = StateNewWorktree
             /\ m.newBranchEdited
             /\ (m'.newBranch # m.newBranch \/ ~m'.newBranchEdited) ) =>
              \E k \in EditKeys : EditsField(2, k) /\ KeyStep(Form, k)
      ]_vars

\* C11: the branch was edited by hand, then another type was picked, and now a
\* rune is typed into the display name
C11_Witness ==
    /\ m.newBranchEdited /\ m.newTypeIdx = 1
    /\ m.newBranch # DerivedBranch(m)
    /\ EditsField(1, Rune("y")) /\ ENABLED KeyStep(Form, Rune("y"))

\* C12: closing the type picker, by enter or by escape, returns to the create
\* form with the highlighted type in the type field and, unless the branch was
\* edited by hand, the branch recomputed from that type and the display name.
C12_PickerCloseRecomputes ==
    [][ \A k \in { KeyEnter, KeyEsc } :
          (InState(StateNewWorktree) /\ m.newTypeListOpen /\ KeyStep(Form, k)) =>
              /\ m'.state = StateNewWorktree /\ ~m'.newTypeListOpen
              /\ m'.newTypeIdx = m.newTypeIdx
              /\ ~m'.newBranchEdited => m'.newBranch = DerivedBranch(m')
      ]_vars

\* C13: in the create form with the picker closed the active field is one of
\* type, display name, branch, description (0..3); Update moves it to the next
\* field on tab and on down and to the previous one on shift-tab and on up,
\* cyclically.
C13_FieldNavigation ==
    (InState(StateNewWorktree) /\ ~m.newTypeListOpen) =>
        /\ m.newActiveField \in 0..3
        /\ \A k \in { KeyTab, KeyDown } :
              Update(m, KeyMsg(k), env).m.newActiveField = (m.newActiveField + 1) % 4
        /\ \A k \in { KeyShiftTab, KeyUp } :
              Update(m, KeyMsg(k), env).m.newActiveField = (m.newActiveField + 3) % 4

\* C14: processing a delete completion leaves the cursor where it is whenever
\* it still indexes an entry of the list (the list less the removed worktree
\* when the deletion succeeded), and otherwise decrements it by one.
C14_DeleteKeepsValidCursor ==
    [][ \A c \in BagToSet(pending) : \A o \in Outcomes(Del, c, env) :
          (c.op = "deleteWorktree" /\ CompleteStep(Del, c, o)) =>
              LET left == IF o.msg.err = "" THEN Len(m.worktrees) - 1 ELSE Len(m.worktrees)
              IN  m'.cursor = IF m.cursor > left THEN m.cursor - 1 ELSE m.cursor
      ]_vars

\* C15: in the delete confirmation 'y' issues one delete command whose branch
\* and path are those of the worktree at the cursor when the key is pressed;
\* 'n' and escape set the mode to List, issue no command and leave the cursor,
\* the worktree list and the PR cache unchanged.
C15_DeleteConfirmKeys ==
    [][ /\ (InState(StateDeleteConfirm) /\ KeyStep(Del, Rune("y"))) =>
              /\ m.cursor > 0 /\ m.cursor <= Len(m.worktrees)
              /\ pending' = pending (+) SetToBag({ deleteWorktree(m.worktrees[m.cursor].Branch,
                                                                  m.worktrees[m.cursor].Path) })
        /\ \A k \in { Rune("n"), KeyEsc } :
              (InState(StateDeleteConfirm) /\ KeyStep(Del, k)) =>
                  /\ m'.state = StateList
                  /\ NoEffect
                  /\ m'.cursor = m.cursor /\ m'.worktrees = m.worktrees
                  /\ m'.prCache = m.prCache
      ]_vars

\* C15: the confirmation shows for the middle one of three worktrees, and 'y' is
\* pressed
C15_Witness ==
    /\ InState(StateDeleteConfirm)
    /\ Len(m.worktrees) = 3 /\ m.cursor = 2
    /\ ENABLED KeyStep(Del, Rune("y"))

\* C16: processing a worktrees-loaded completion that carries an error sets the
\* banner to that error and changes nothing else of the model (mode, worktree
\* list, header summary, cursor, PR cache), and issues no command; so does a
\* failed repository initialisation, which leaves the mode NoRepository.
C16_LoadErrorOnlyBanner ==
    [][ \A c \in BagToSet(pending) : \A o \in Outcomes(Main, c, env) :
          ( /\ c.op \in { "loadWorktrees", "initGitRepo" } /\ o.msg.err # ""
            /\ CompleteStep(Main, c, o) ) =>
              /\ m' = [m EXCEPT !.errMsg = o.msg.err]
              /\ pending' = pending (-) SetToBag({c})
              /\ env' = env /\ ~quit'
              /\ c.op = "initGitRepo" => m'.state = StateNoGit
      ]_vars

\* C16: a reload failed while the delete confirmation was showing: its error is
\* in the banner and the confirmation, the list and the cursor are still there
C16_Witness ==
    /\ m.errMsg = ErrList /\ m.state = StateDeleteConfirm
    /\ m.cursor = 2 /\ Len(m.worktrees) = 2
    /\ ~BagIn(loadWorktrees, pending)

\* the cursor of mm is on a linked worktree whose branch has no PR-cache entry
OnUncachedLinked(mm) ==
    /\ mm.cursor > 0 /\ mm.cursor <= Len(mm.worktrees)
    /\ ~mm.worktrees[mm.cursor].IsMain
    /\ mm.worktrees[mm.cursor].Branch \notin DOMAIN mm.prCache

\* what C17 says of the navigation key press k, a fetch being due when `due`
FetchOnLanding(k, due) ==
    (InState(StateList) /\ KeyStep(Pr, k)) =>
        IF due
        THEN pending' = pending (+) SetToBag({ fetchPR(m'.worktrees[m'.cursor].Branch) })
        ELSE pending' = pending

\* C17 (as amended): in List mode, while gh is available, every navigation key
\* press that leaves the cursor on a non-primary worktree whose branch has no
\* PR-cache entry issues one PR fetch for exactly that branch; no fetch is issued
\* when the cursor lands on the create row, on the primary worktree or on a
\* branch with a cache entry, and none at all while gh is unavailable.
C17_FetchOnLanding ==
    [][ \A k \in UpKeys \cup DownKeys :
          FetchOnLanding(k, m'.ghAvailable /\ OnUncachedLinked(m')) ]_vars

\* C17 (as written): the same whether or not gh is available.
C17_FetchOnLandingAnyTool ==
    [][ \A k \in UpKeys \cup DownKeys : FetchOnLanding(k, OnUncachedLinked(m')) ]_vars

\* C17: gh is available, the cursor is on worktree b whose PR status is cached,
\* worktree a above it has no cache entry, and "up" is pressed
C17_Witness ==
    /\ InState(StateList) /\ m.ghAvailable
    /\ m.cursor = 3
    /\ <<"b">> \in DOMAIN m.prCache /\ <<"a">> \notin DOMAIN m.prCache
    /\ ENABLED KeyStep(Pr, KeyUp)

\* the PR cache after the result info for branch b has been stored in it
CacheWith(cache, b, info) ==
    [x \in DOMAIN cache \cup {b} |-> IF x = b THEN info ELSE cache[x]]

\* C18: the PR cache changes only when a PR-fetch completion is processed, and
\* then exactly the entry of the branch named in the message is set; no key
\* press and no other completion adds, changes or removes an entry, and an entry
\* once present is never removed.
C18_CacheOnlyByFetch ==
    [][ /\ DOMAIN m.prCache \subseteq DOMAIN m'.prCache
        /\ m'.prCache # m.prCache =>
              \E c \in BagToSet(pending) : \E o \in Outcomes(Del, c, env) :
                  /\ c.op = "fetchPR" /\ CompleteStep(Del, c, o)
                  /\ m'.prCache = CacheWith(m.prCache, c.branch, o.msg.info)
        /\ \A c \in BagToSet(pending) : \A o \in Outcomes(Del, c, env) :
              (c.op = "fetchPR" /\ CompleteStep(Del, c, o)) =>
                  m'.prCache = CacheWith(m.prCache, c.branch, o.msg.info)
      ]_vars

\* C18: the list has been reloaded without the worktree of branch a, and the PR
\* status fetched for a is still in the cache
C18_Witness ==
    /\ m.state = StateList /\ m.errMsg = ""
    /\ <<"a">> \in DOMAIN m.prCache
    /\ \A i \in 1..Len(m.worktrees) : m.worktrees[i].Branch # <<"a">>
    /\ pending = EmptyBag

\* C19: a PR fetch always completes with a prFetchedMsg, whatever gh does, and
\* processing it never touches the error banner: the branch of the fetch gets a
\* cache entry, which is the empty ("no PR") one when the lookup failed, and
\* always so when gh is not available as the fetch runs.
C19_FetchNeverFails ==
    [][ \A c \in BagToSet(pending) :
          c.op = "fetchPR" =>
              /\ \A o \in run(Pr.snaps, c, env) :
                    /\ o.msg.type = "prFetchedMsg" /\ ~o.fault
                    /\ ~env.gh => o.msg.info = NilPR
              /\ \A o \in Outcomes(Pr, c, env) :
                    CompleteStep(Pr, c, o) =>
                        /\ m'.errMsg = m.errMsg
                        /\ c.branch \in DOMAIN m'.prCache
                        /\ m'.prCache[c.branch] = o.msg.info
                        /\ (o.msg.info = NilPR /\ m'.ghAvailable) =>
                              prBadge(m', c.branch) = Badge("no PR", 0)
      ]_vars

\* C19: the fetch for branch a was issued while gh was installed, gh has been
\* removed since, and the fetch is about to complete
C19_Witness ==
    /\ ~env.gh /\ m.ghAvailable /\ m.errMsg = ""
    /\ <<"a">> \notin DOMAIN m.prCache
    /\ BagIn(fetchPR(<<"a">>), pending)
    /\ \E o \in Outcomes(Pr, fetchPR(<<"a">>), env) : ENABLED CompleteStep(Pr, fetchPR(<<"a">>), o)

\* the placeholder of the commit the overlay is open on: hash, subject and
\* relative time of the commit summary, nothing else, Loaded false
Placeholder(mm) ==
    LET c == selectedCommits(mm)[mm.selectedCommitIndex + 1]
    IN  [ZeroCommitDetail EXCEPT !.ShortHash = c.Hash, !.Subject = c.Message,
                                 !.RelTime = c.RelTime]

NamedKeys(names) == { k \in AllKeys : KeyString(k) \in names }
TypedKeys(kinds) == { k \in AllKeys : k.Type \in kinds }
MoveNames == { <<"u","p">>, <<"k">>, <<"d","o","w","n">>, <<"j">> }
Recognised(mm) ==
    NamedKeys({ <<"c","t","r","l","+","c">> }) \cup
    CASE mm.state = StateNoGit -> NamedKeys({ <<"i">>, <<"q">> })
      [] mm.state = StateShellSetup ->
            NamedKeys({ <<"y">>, <<"n">>, <<"e","s","c">>, <<"q">> })
      [] mm.state = StateList ->
            NamedKeys(MoveNames \cup { <<"q">>, <<"e","n","t","e","r">>, <<"n">>, <<"d">>,
                                       <<"e">>, <<"c">> })
      [] mm.state = StateNewWorktree /\ mm.newTypeListOpen ->
            NamedKeys(MoveNames \cup { <<"e","n","t","e","r">>, <<"e","s","c">> })
      [] mm.state = StateNewWorktree /\ ~mm.newTypeListOpen ->
            TypedKeys({ "KeyEsc", "KeyTab", "KeyDown", "KeyUp", "KeyEnter", "KeySpace",
                        "KeyBackspace", "KeyRunes" })
      [] mm.state = StateEditWorktree ->
            TypedKeys({ "KeyEsc", "KeyEnter", "KeyBackspace", "KeySpace", "KeyRunes" })
      [] mm.state = StateDeleteConfirm -> NamedKeys({ <<"y">>, <<"n">>, <<"e","s","c">> })
      [] mm.state = StateRightPaneFocused ->
            NamedKeys(MoveNames \cup { <<"q">>, <<"e","s","c">>, <<"e","n","t","e","r">> })
      [] mm.state = StateCommitDetail -> NamedKeys(MoveNames \cup { <<"e","s","c">> })
      [] OTHER -> {}

\* C21: in every mode, with no error banner showing, a key the mode's handler has
\* no case for leaves the whole model and the environment as they are and
\* returns no command
C21_UnrecognisedKeyNoEffect ==
    m.errMsg = "" =>
        \A k \in AllKeys \ Recognised(m) : Update(m, KeyMsg(k), env) = Ret(m, NoCmd, env)

\* the shell-integration prompt is showing, without a banner, and tab, which it
\* has no case for, is pressed
C21_Witness ==
    /\ InState(StateShellSetup)
    /\ KeyTab \notin Recognised(m)
    /\ ENABLED KeyStep(Modes, KeyTab)

\* the create form as resetNewModal leaves it
FormIsReset(mm) ==
    /\ mm.newTypeIdx = 0
    /\ ~mm.newTypeListOpen
    /\ mm.newDisplayName = <<>>
    /\ mm.newBranch = <<>>
    /\ mm.newDescription = <<>>
    /\ mm.newActiveField = 0
    /\ ~mm.newBranchEdited

\* C22: every step that enters the create form leaves the form reset (first type,
\* picker closed, empty name, branch and description, field 0 active, branch not
\* edited); every step from the list into the commit pane selects commit 0; every
\* step into the commit-detail overlay sets the scroll offset to 0; every step
\* into the rename modal sets the field to the branch of the selected worktree
C22_ResetOnEntry ==
    [][ /\ (m.state # StateNewWorktree /\ m'.state = StateNewWorktree) => FormIsReset(m')
        /\ (m.state = StateList /\ m'.state = StateRightPaneFocused) =>
              m'.selectedCommitIndex = 0
        /\ (m.state # StateCommitDetail /\ m'.state = StateCommitDetail) =>
              m'.commitDetailScroll = 0
        /\ (m.state # StateEditWorktree /\ m'.state = StateEditWorktree) =>
              (m.cursor > 0 /\ m'.editName = m.worktrees[m.cursor].Branch)
      ]_vars

\* every one of the four modes is about to be entered with values left from an
\* earlier use: the list is showing, the form has a name, an open picker moved to
\* the second type and a derived branch, the rename field differs from the branch
\* of the selected worktree, the second commit is selected and the overlay is
\* scrolled
C22_Witness ==
    /\ InState(StateList)
    /\ m.cursor = 1
    /\ m.newDisplayName # <<>> /\ m.newBranch # <<>> /\ m.newTypeIdx = 1
    /\ m.newTypeListOpen /\ m.newBranchEdited = FALSE
    /\ m.editName # m.worktrees[1].Branch
    /\ m.selectedCommitIndex = 1
    /\ m.commitDetailScroll = 1
    /\ ENABLED KeyStep(Reentry, Rune("n"))
    /\ ENABLED KeyStep(Reentry, Rune("e"))
    /\ ENABLED KeyStep(Reentry, KeyEnter)

\* C23: in the commit pane the selected worktree exists and the commit index is
\* in 0..max(0, len(commits) - 1) of that worktree, whatever up/down keys were
\* pressed; without a banner, enter on a worktree with no commits returns the
\* model unchanged and no command; enter on a worktree with commits opens the
\* overlay and starts exactly one loadCommitDetail with that worktree's path and
\* the selected commit's hash; escape goes to the list and starts nothing
C23_CommitPane ==
    /\ [](m.state = StateRightPaneFocused =>
             /\ m.cursor > 0 /\ m.cursor <= Len(m.worktrees)
             /\ m.selectedCommitIndex \in 0..Max(0, Len(selectedCommits(m)) - 1)
             /\ (m.errMsg = "" /\ selectedCommits(m) = <<>>) =>
                   Update(m, KeyMsg(KeyEnter), env) = Ret(m, NoCmd, env))
    /\ [][ /\ ( /\ InState(StateRightPaneFocused) /\ selectedCommits(m) # <<>>
                /\ KeyStep(Modes, KeyEnter) ) =>
                  /\ m'.state = StateCommitDetail
                  /\ pending' = pending (+) SetToBag({
                        loadCommitDetail(m.worktrees[m.cursor].Path,
                                         selectedCommits(m)[m.selectedCommitIndex + 1].Hash) })
           /\ (InState(StateRightPaneFocused) /\ KeyStep(Modes, KeyEsc)) =>
                  (m'.state = StateList /\ pending' = pending)
         ]_vars

\* the overlay has just been opened from the commit pane on the second of two
\* commits: its fetch is the one command running
C23_Witness ==
    /\ InState(StateCommitDetail)
    /\ m.selectedCommitIndex = 1
    /\ Len(selectedCommits(m)) = 2
    /\ ~m.activeCommit.Loaded
    /\ pending = SetToBag({ loadCommitDetail(m.worktrees[m.cursor].Path, CommitH2.Hash) })

\* the commands a modal issues
ModalOps == { "createWorktree", "deleteWorktree", "renameWorktree" }
ModalCommandRunning(op) == \E c \in BagToSet(pending) : c.op = op

\* C24: whenever a create, delete or rename command is running, the mode is
\* eventually the list, given that every running command completes and its
\* message is delivered; this holds whether the command succeeds or fails
C24_ModalCommandLeadsToList ==
    \A op \in ModalOps : ModalCommandRunning(op) ~> (m.state = StateList)

\* the rename modal is open, its rename command is running and is about to fail
C24_Witness ==
    /\ m.state = StateEditWorktree
    /\ \E c \in BagToSet(pending) :
          /\ c.op = "renameWorktree"
          /\ \E o \in run(Modes.snaps, c, env) : o.fault /\ ENABLED CompleteStep(Modes, c, o)

\* the message type each command returns
MsgOf(op) ==
    CASE op = "checkGitRepo" -> "gitCheckMsg"
      [] op = "loadWorktrees" -> "worktreesLoadedMsg"
      [] op = "loadCommitDetail" -> "commitDetailLoadedMsg"
      [] op = "fetchPR" -> "prFetchedMsg"
      [] op = "initGitRepo" -> "gitInitMsg"
      [] op = "createWorktree" -> "worktreeCreatedMsg"
      [] op = "deleteWorktree" -> "worktreeDeletedMsg"
      [] op = "renameWorktree" -> "worktreeRenamedMsg"

\* the commands Update starts when it processes the message of command op: the
\* reload after the repository check, the initialisation and the three modal
\* commands, the pull-request lookup after a reload
StartedBy(op) ==
    CASE op \in { "checkGitRepo", "initGitRepo", "createWorktree", "deleteWorktree",
                  "renameWorktree" } -> { "nil", "loadWorktrees" }
      [] op = "loadWorktrees" -> { "nil", "fetchPR" }
      [] OTHER -> { "nil" }

\* C25: every outcome of a running command is one message of the command's own
\* type, failure included; processing it takes that one command out of the
\* running ones and starts at most one command, one that the message's case
\* specifies and never the command that just completed; a failed reload or
\* initialisation starts nothing; a resize starts nothing; so commands are
\* started by key presses and by completions only
C25_OneCompletionNoRetry ==
    [][ /\ \A c \in BagToSet(pending) : \A o \in run(Modes.snaps, c, env) :
              /\ o.msg.type = MsgOf(c.op)
              /\ CompleteStep(Modes, c, o) =>
                    LET cmd == Update(m, o.msg, o.env).cmd IN
                    /\ cmd.op \in StartedBy(c.op) \ { c.op }
                    /\ pending' = Issue(pending (-) SetToBag({c}), cmd)
                    /\ BagCardinality(pending') <= BagCardinality(pending)
                    /\ (o.fault /\ c.op \in { "loadWorktrees", "initGitRepo" }) =>
                          cmd = NoCmd
        /\ BagCardinality(pending') <= BagCardinality(pending) + 1
        /\ (\E sz \in Modes.sizes : ResizeStep(Modes, sz)) => pending' = pending
        /\ (pending' # pending /\ ~quit') =>
              \/ \E k \in Modes.keys : KeyStep(Modes, k)
              \/ \E c \in BagToSet(pending) : \E o \in Outcomes(Modes, c, env) :
                    CompleteStep(Modes, c, o)
      ]_vars

\* a failed command's message is about to be processed: the initialisation of
\* the repository is running and is about to fail
C25_Witness ==
    /\ m.state = StateNoGit
    /\ pending = SetToBag({ initGitRepo })
    /\ \E o \in run(Modes.snaps, initGitRepo, env) :
          o.fault /\ ENABLED CompleteStep(Modes, initGitRepo, o)

\* the functions of package git a command called, in order
CalledFns(o) == [i \in 1..Len(o.calls) |-> o.calls[i][1]]

\* C26: a createWorktree command running against a repository without commits
\* has one outcome: no call of AddWorktree or SaveWorktreeMeta, the environment
\* as it was, and a worktreeCreatedMsg whose error is the no-commits text, which
\* Update puts in the banner; in a repository with commits AddWorktree is called,
\* and SaveWorktreeMeta after it exactly when it succeeded
C26_NoCommitsRejectedEarly ==
    \A c \in BagToSet(pending) :
        c.op = "createWorktree" =>
            IF ~env.hasCommits
            THEN /\ run(Form.snaps, c, env) # {}
                 /\ \A o \in run(Form.snaps, c, env) :
                       /\ o.calls = <<>>
                       /\ o.env = env
                       /\ o.msg = worktreeCreatedMsg(ErrNoCommits)
                       /\ Update(m, o.msg, o.env).m.errMsg = ErrNoCommits
            ELSE \A o \in run(Form.snaps, c, env) :
                       CalledFns(o) = IF o.msg.err = ""
                                      THEN <<"AddWorktree", "SaveWorktreeMeta">>
                                      ELSE <<"AddWorktree">>

\* the form was submitted in a repository without commits: the create command is
\* running and its message is about to be processed
C26_Witness ==
    /\ ~env.hasCommits
    /\ m.state = StateNewWorktree
    /\ \E c \in BagToSet(pending) :
          /\ c.op = "createWorktree"
          /\ \E o \in run(Form.snaps, c, env) : ENABLED CompleteStep(Form, c, o)

\* s is t followed by something
IsPrefix(t, s) == Len(t) <= Len(s) /\ SubSeq(s, 1, Len(t)) = t

\* C27: for every s and every w >= 0, truncate(s, w) is at most w columns wide;
\* it is s when w is at least the width of s; when s is wider than w it is a
\* prefix of s followed by one ellipsis for w >= 2, a bare prefix of s without
\* an ellipsis for w = 1, and empty for w <= 0; runes two columns wide included
C27_TruncateFits ==
    (call.fn = "truncate" /\ call.done) =>
        LET s == call.s
            w == call.width
            out == call.out
        IN  /\ Width(out) <= w
            /\ w >= Width(s) => out = s
            /\ (Width(s) > w /\ w >= 2) =>
                  /\ out # <<>> /\ out[Len(out)] = Ellipsis
                  /\ IsPrefix(SubSeq(out, 1, Len(out) - 1), s)
            /\ (Width(s) > w /\ w = 1) => (IsPrefix(out, s) /\ \A i \in 1..Len(out) : out[i] # Ellipsis)
            /\ w <= 0 => out = <<>>

\* the same for strings of one-column runes only
C27_TruncateFitsNarrow ==
    (call.fn = "truncate" /\ call.done /\ \A i \in 1..Len(call.s) : RuneWidth(call.s[i]) = 1) =>
        C27_TruncateFits

\* the words of the lines, in order
RECURSIVE WordsOf(_)
WordsOf(lines) == IF lines = <<>> THEN <<>> ELSE Fields(Head(lines)) \o WordsOf(Tail(lines))

\* the lines are, paragraph after paragraph, lines that hold exactly the words of
\* that paragraph in order: no line holds words of two paragraphs
RECURSIVE LinesOfParagraphs(_, _)
LinesOfParagraphs(lines, paragraphs) ==
    IF paragraphs = <<>> THEN lines = <<>>
    ELSE LET words == Fields(Head(paragraphs)) IN
         \E k \in 0..Len(lines) :
            /\ WordsOf(SubSeq(lines, 1, k)) = words
            /\ \A i \in 1..k : Fields(lines[i]) # <<>>
            /\ LinesOfParagraphs(SubSeq(lines, k + 1, Len(lines)), Tail(paragraphs))

\* C28: for every text and every width >= 1, every line of wrapWords is at most
\* width columns wide or is one word; the words of the lines, in order, are the
\* whitespace-delimited words of the text in order; and the lines are those of
\* the first paragraph, then those of the second, and so on, so that no line
\* spans a newline of the text
C28_WrapWords ==
    (call.fn = "wrapWords" /\ call.done /\ call.width >= 1) =>
        LET lines == call.out IN
        /\ \A i \in 1..Len(lines) :
              Width(lines[i]) <= call.width \/ Fields(lines[i]) = <<lines[i]>>
        /\ WordsOf(lines) = Fields(call.s)
        /\ LinesOfParagraphs(lines, SplitLines(call.s))

\* a text of two paragraphs, the first of which does not fit the width, has been
\* wrapped into three lines
C28_Witness ==
    /\ call.fn = "wrapWords" /\ call.done
    /\ call.s = <<"a", " ", "b", "\n", "a">>
    /\ call.width = 2
    /\ call.out = << <<"a">>, <<"b">>, <<"a">> >>

\* the runes slugify writes
SlugLetters == { LowerLetters[i] : i \in 1..26 } \cup Digits
Separators == { "-", "/" }

\* C29: for every input the result of slugify consists of lower-case letters,
\* digits, "-" and "/", has no two adjacent separators, and neither begins nor
\* ends with a separator; slugify("Feat: Auth Refresh") = "feat-auth-refresh"
\* and slugify("a/b  c") = "a/b-c"
C29_SlugShape ==
    (call.fn = "slugify" /\ call.done) =>
        LET out == call.out IN
        /\ \A i \in 1..Len(out) : out[i] \in SlugLetters \cup Separators
        /\ \A i \in 1..(Len(out) - 1) : ~(out[i] \in Separators /\ out[i + 1] \in Separators)
        /\ out # <<>> => (out[1] \notin Separators /\ out[Len(out)] \notin Separators)
        /\ call.s = SlugExample1 =>
              out = <<"f","e","a","t","-","a","u","t","h","-","r","e","f","r","e","s","h">>
        /\ call.s = SlugExample2 => out = <<"a","/","b","-","c">>

\* the parts of the statement that hold: the alphabet, no two adjacent hyphens,
\* no hyphen at the start, no separator at the end, and the two examples
C29_SlugShapeHyphens ==
    (call.fn = "slugify" /\ call.done) =>
        LET out == call.out IN
        /\ \A i \in 1..Len(out) : out[i] \in SlugLetters \cup Separators
        /\ \A i \in 1..(Len(out) - 1) : ~(out[i] = "-" /\ out[i + 1] = "-")
        /\ out # <<>> => (out[1] # "-" /\ out[Len(out)] \notin Separators)
        /\ call.s = SlugExample1 =>
              out = <<"f","e","a","t","-","a","u","t","h","-","r","e","f","r","e","s","h">>
        /\ call.s = SlugExample2 => out = <<"a","/","b","-","c">>

\* the place of a line's kind in the flat buffer: header, subject, body, then the
\* loading note or the files section, then the diff section; blank lines and
\* section titles belong to the section they precede
SectionRank(lines, i) ==
    LET kindAt(j) == lines[j].kind
        next == CHOOSE j \in i..Len(lines) : kindAt(j) # "" /\ \A l \in i..(j - 1) : kindAt(l) = ""
        k == kindAt(next)
    IN  CASE k = "header" -> 1
          [] k = "subject" -> 2
          [] k = "body" -> 3
          [] k \in { "Loading", "Files changed", "M", "A", "D", "R" } -> 4
          [] OTHER -> 5

\* C30: while the overlay is showing, for the stored detail, terminal size and
\* scroll offset, the rendered window has exactly scrollH = max(1, outerH - 6)
\* lines with outerH = max(10, 80% of the height); it starts at
\* min(offset, max(0, total - scrollH)) and holds the consecutive lines of the
\* flat buffer from there, then blank lines; the buffer begins with the header, a
\* blank line and the subject and keeps the order header, subject, body, files,
\* diff
C30_OverlayWindow ==
    m.state = StateCommitDetail =>
        LET outerH == Max(10, (m.height * 80) \div 100)
            scrollH == Max(1, outerH - 6)
            lines == overlayLines(m)
            total == Len(lines)
            start == Min(m.commitDetailScroll, Max(0, total - scrollH))
            visible == overlayVisible(m)
        IN  /\ Len(visible) = scrollH
            /\ \A i \in 1..scrollH :
                  visible[i] = IF start + i <= total THEN lines[start + i] ELSE BlankLine
            /\ total >= 3
            /\ lines[1].kind = "header" /\ lines[2] = BlankLine /\ lines[3].kind = "subject"
            /\ lines[total].kind # ""
            /\ \A i \in 1..(total - 1) : SectionRank(lines, i) <= SectionRank(lines, i + 1)

\* the overlay shows a loaded detail whose buffer is longer than the window, and
\* the stored offset is beyond the last start the window can have
C30_Witness ==
    /\ m.state = StateCommitDetail
    /\ m.activeCommit.Loaded
    /\ Len(overlayLines(m)) > overlayScrollH(m)
    /\ m.commitDetailScroll > Len(overlayLines(m)) - overlayScrollH(m)

\* the one command running
Running(c) == pending = SetToBag({c})

C32_RenameModal ==
    /\ [](m.state = StateEditWorktree => m.cursor \in 1..Len(m.worktrees))
    /\ [][ /\ (m.state # StateEditWorktree /\ m'.state = StateEditWorktree) =>
                 /\ InState(StateList) /\ m.cursor > 0
                 /\ KeyStep(Modes, Rune("e"))
                 /\ m'.editName = m.worktrees[m.cursor].Branch
                 /\ m'.cursor = m.cursor /\ m'.worktrees = m.worktrees
           /\ (InState(StateEditWorktree) /\ KeyStep(Modes, KeyEnter)) =>
                 IF m.editName # <<>> /\ m.editName # m.worktrees[m.cursor].Branch
                 THEN /\ m' = m
                      /\ pending' = pending (+)
                            SetToBag({renameWorktree(m.worktrees[m.cursor].Branch, m.editName)})
                 ELSE pending' = pending /\ m'.state = StateList
           /\ (InState(StateEditWorktree) /\ KeyStep(Modes, KeyEsc)) =>
                 (pending' = pending /\ m'.state = StateList)
         ]_vars

\* the rename modal is open on the second worktree, its field was emptied, and
\* enter is pressed
C32_Witness ==
    /\ InState(StateEditWorktree)
    /\ m.cursor = 2 /\ m.editName = <<>>
    /\ ENABLED KeyStep(Modes, KeyEnter)

\* the rename modal is open on branch b with the field changed to "y", and enter
\* is pressed
C32_WitnessChanged ==
    /\ InState(StateEditWorktree)
    /\ m.worktrees[m.cursor].Branch = <<"b">> /\ m.editName = <<"y">>
    /\ ENABLED KeyStep(Modes, KeyEnter)


\* C33: when the lookup of a commit's detail fails, the completion message
\* carries an error, the banner shows it and the detail held afterwards is not
\* marked loaded; when it succeeds the detail held afterwards is marked loaded
C33_LookupFailureReported ==
    [][ \A c \in BagToSet(pending) :
          c.op = "loadCommitDetail" =>
             \A o \in run(Modes.snaps, c, env) :
                CompleteStep(Modes, c, o) =>
                   IF o.fault
                   THEN /\ o.msg.err # ""
                        /\ m'.errMsg = o.msg.err
                        /\ ~m'.activeCommit.Loaded
                   ELSE m'.activeCommit.Loaded
      ]_vars


\* C34: in every reachable state the cursor is within 0..len(worktrees), whatever
\* the order of key presses, reloads that replace the list, delete completions
\* and failed loads
C34_CursorWithinList == 0 <= m.cursor /\ m.cursor <= Len(m.worktrees)

\* the cursor is on the last of three worktrees and a reload is about to replace
\* the list by one of two worktrees
C34_Witness ==
    /\ m.cursor = 3 /\ Len(m.worktrees) = 3
    /\ \E o \in run(Del.snaps, loadWorktrees, env) :
          /\ ~o.fault /\ Len(o.msg.worktrees) = 2
          /\ ENABLED CompleteStep(Del, loadWorktrees, o)


\* the delete commands the step starts
DeletesStarted ==
    { c \in BagToSet(pending') :
        c.op = "deleteWorktree" /\ CopiesIn(c, pending') > CopiesIn(c, pending) }

\* C35: whenever the delete confirmation is showing, the cursor is on a worktree
\* that is not the primary one; every step that changes the cursor or the list
\* while it is showing leaves it; and every delete command started is for the
\* worktree at the cursor, which is not the primary one
C35_NeverDeletePrimary ==
    /\ [](m.state = StateDeleteConfirm =>
             /\ m.cursor \in 1..Len(m.worktrees)
             /\ ~m.worktrees[m.cursor].IsMain)
    /\ [][ /\ ( /\ m.state = StateDeleteConfirm
                /\ (m'.cursor # m.cursor \/ m'.worktrees # m.worktrees) ) =>
                 m'.state # StateDeleteConfirm
           /\ \A c \in DeletesStarted :
                 /\ m.state = StateDeleteConfirm
                 /\ ~m.worktrees[m.cursor].IsMain
                 /\ c = deleteWorktree(m.worktrees[m.cursor].Branch, m.worktrees[m.cursor].Path)
         ]_vars

\* the confirmation is showing for the third worktree while the delete of
\* another is running and is about to complete, which moves the cursor
C35_Witness ==
    /\ m.state = StateDeleteConfirm /\ m.cursor = 3
    /\ \E c \in BagToSet(pending) :
          /\ c.op = "deleteWorktree" /\ c.branch # m.worktrees[3].Branch
          /\ \E o \in run(Del.snaps, c, env) : ENABLED CompleteStep(Del, c, o)


\* renderNewFormModal: what the create modal shows, the notice that a worktree
\* cannot be created without commits or the four-field form
renderNewFormModal(mm) == IF ~mm.hasCommits THEN "renderNoCommitsModal" ELSE "form"

\* C36: after a successful worktrees-loaded message with hasCommits true has
\* been processed, the model's hasCommits is true and the create modal renders
\* the form
C36_HasCommitsTracksRepository ==
    [][ \A o \in run(Modes.snaps, loadWorktrees, env) :
          ( /\ ~o.fault /\ o.msg.hasCommits
            /\ CompleteStep(Modes, loadWorktrees, o) ) =>
              /\ m'.hasCommits
              /\ renderNewFormModal(m') = "form"
      ]_vars


\* the modes a reload issued earlier can complete in
ModalStates ==
    { StateNewWorktree, StateEditWorktree, StateDeleteConfirm, StateRightPaneFocused,
      StateCommitDetail }

\* the values of the modal fields
ModalFields(mm) ==
    << mm.newTypeIdx, mm.newTypeListOpen, mm.newDisplayName, mm.newBranch,
       mm.newDescription, mm.newActiveField, mm.newBranchEdited, mm.editName,
       mm.selectedCommitIndex, mm.commitDetailScroll >>

\* C37: a successful worktrees-loaded completion processed in the create modal,
\* the rename modal, the delete confirmation, the commit pane or the commit
\* overlay replaces the list and the summary and leaves the mode and the values
\* of the modal fields as they are
C37_LateReloadKeepsMode ==
    [][ \A o \in run(Main.snaps, loadWorktrees, env) :
          ( /\ ~o.fault /\ m.state \in ModalStates
            /\ CompleteStep(Main, loadWorktrees, o) ) =>
              /\ m'.worktrees = o.msg.worktrees
              /\ m'.stashCount = o.msg.stashCount
              /\ m'.state = m.state
              /\ ModalFields(m') = ModalFields(m)
      ]_vars


\* the delete command the confirmation submits is running
DeleteOfCursorRunning ==
    /\ m.state = StateDeleteConfirm
    /\ BagIn(deleteWorktree(m.worktrees[m.cursor].Branch, m.worktrees[m.cursor].Path), pending)

\* C38: while the delete command submitted from the confirmation is running and
\* the confirmation is still showing, no key press starts another create, delete
\* or rename command
C38_OneMutationOutstanding ==
    [][ \A k \in Del.keys :
          (DeleteOfCursorRunning /\ KeyStep(Del, k)) =>
              \A c \in BagToSet(pending') :
                 c.op \in MutationOps => CopiesIn(c, pending') <= CopiesIn(c, pending)
      ]_vars


\* C39: when the delete submitted from the confirmation fails and its completion
\* is processed with the confirmation still showing, the cursor is where it was
\* and on the worktree whose deletion was requested
C39_FailedDeleteKeepsSelection ==
    [][ \A c \in BagToSet(pending) : \A o \in Outcomes(Del, c, env) :
          ( /\ DeleteOfCursorRunning
            /\ c = deleteWorktree(m.worktrees[m.cursor].Branch, m.worktrees[m.cursor].Path)
            /\ o.msg.err # ""
            /\ CompleteStep(Del, c, o) ) =>
              /\ m'.cursor = m.cursor
              /\ m'.worktrees[m'.cursor].Branch = c.branch
      ]_vars


\* ── PR badges ───────────────────────────────────────────────────────────────

InitBadges == InitIn(Badges)

NextBadges == KeyPress(Badges) \/ Resize(Badges) \/ Complete(Badges) \/ GhChange

SpecBadges == InitBadges /\ [][NextBadges]_vars

\* the runtime delivers the message of every command that finishes, and every
\* command finishes
FairBadges == SpecBadges /\ WF_vars(Complete(Badges))

\* the list is showing with the cursor on the linked worktree of branch b, and gh
\* is installed and known to be
Rests(b) ==
    /\ m.state = StateList
    /\ env.gh /\ m.ghAvailable
    /\ m.cursor \in 1..Len(m.worktrees)
    /\ ~m.worktrees[m.cursor].IsMain
    /\ m.worktrees[m.cursor].Branch = b

\* C40: if from some point on the list is showing with the cursor on the same
\* linked worktree and gh is available, the PR cache eventually holds an entry
\* for that worktree's branch, given that every running command completes and
\* its message is delivered
C40_BadgeAppears ==
    \A b \in { <<"a">>, <<"b">> } : <>[]Rests(b) => <>(b \in DOMAIN m.prCache)

====
